---- MODULE Spec2Model ----
(***************************************************************************)
(* ODCS converter: the data-contract document, its projection onto a       *)
(* multi-sheet workbook (generator.py), the reconstruction of a document   *)
(* from a workbook (excel_parser.py), the contract schema (models.py) and  *)
(* the Excel -> ODCS command (cli.py).                                     *)
(*                                                                         *)
(* Python values are tagged records.  A string is a sequence of            *)
(* one-character strings, so that strip, lower, isdigit, split, join and   *)
(* float() are computed character by character.  Dictionary keys and sheet *)
(* and column names are program constants and stay TLA+ strings.           *)
(***************************************************************************)
EXTENDS Integers, Sequences, FiniteSets, TLC

(***************************************************************************)
(* Python values                                                           *)
(***************************************************************************)
None == [k |-> "none"]
S(s) == [k |-> "str", s |-> s]
I(n) == [k |-> "int", n |-> n]
B(b) == [k |-> "bool", b |-> b]
\* a float: cls is "fin", "inf" or "nan"; a finite float is sign, integer
\* part and the fractional digits without trailing zeros
F(cls, neg, ip, fr) == [k |-> "float", cls |-> cls, neg |-> neg, ip |-> ip, fr |-> fr]
L(l) == [k |-> "list", l |-> l]
D(d) == [k |-> "dict", d |-> d]

EmptyDict == [z \in {} |-> None]
\* d[key] = v
Put(d, key, v) == [z \in (DOMAIN d) \cup {key} |-> IF z = key THEN v ELSE d[z]]
\* d.get(key, default)
Get(d, key, default) == IF key \in DOMAIN d THEN d[key] ELSE default
\* d.update(e)
Update(d, e) == [z \in (DOMAIN d) \cup (DOMAIN e) |-> IF z \in DOMAIN e THEN e[z] ELSE d[z]]
\* {k: v for k, v in d.items() if keep(k)}
Restrict(d, keys) == [z \in (DOMAIN d) \cap keys |-> d[z]]

(***************************************************************************)
(* Characters and the str methods the code uses                            *)
(***************************************************************************)
DigitSeq == <<"0", "1", "2", "3", "4", "5", "6", "7", "8", "9">>
Digits == {DigitSeq[i] : i \in 1..10}
DigitVal(c) == (CHOOSE i \in 1..10 : DigitSeq[i] = c) - 1
Whitespace == {" ", "\t", "\n"}
LowerMap ==
  [A |-> "a", B |-> "b", C |-> "c", D |-> "d", E |-> "e", F |-> "f", G |-> "g",
   H |-> "h", I |-> "i", J |-> "j", K |-> "k", L |-> "l", M |-> "m", N |-> "n",
   O |-> "o", P |-> "p", Q |-> "q", R |-> "r", S |-> "s", T |-> "t", U |-> "u",
   V |-> "v", W |-> "w", X |-> "x", Y |-> "y", Z |-> "z"]

\* str.lower()
Lower(s) == [i \in 1..Len(s) |-> IF s[i] \in DOMAIN LowerMap THEN LowerMap[s[i]] ELSE s[i]]

RECURSIVE LStrip(_)
LStrip(s) == IF s # <<>> /\ Head(s) \in Whitespace THEN LStrip(Tail(s)) ELSE s
RECURSIVE RStrip(_)
RStrip(s) == IF s # <<>> /\ s[Len(s)] \in Whitespace THEN RStrip(SubSeq(s, 1, Len(s) - 1)) ELSE s
\* str.strip()
Strip(s) == RStrip(LStrip(s))

\* str.isdigit() on the ASCII characters
IsDigit(s) == s # <<>> /\ \A i \in 1..Len(s) : s[i] \in Digits
\* "." in s
HasChar(s, c) == \E i \in 1..Len(s) : s[i] = c
\* s.replace(c, t) for a one-character c
RECURSIVE Replace(_, _, _)
Replace(s, c, t) ==
  IF s = <<>> THEN <<>>
  ELSE (IF Head(s) = c THEN t ELSE <<Head(s)>>) \o Replace(Tail(s), c, t)

\* s.split(sep) for a one-character sep: the segments, empty ones included
RECURSIVE SplitAcc(_, _, _)
SplitAcc(s, sep, cur) ==
  IF s = <<>> THEN <<cur>>
  ELSE IF Head(s) = sep THEN <<cur>> \o SplitAcc(Tail(s), sep, <<>>)
  ELSE SplitAcc(Tail(s), sep, Append(cur, Head(s)))
Split(s, sep) == SplitAcc(s, sep, <<>>)

\* sep.join(parts)
RECURSIVE Join(_, _)
Join(parts, sep) ==
  IF parts = <<>> THEN <<>>
  ELSE IF Len(parts) = 1 THEN parts[1]
  ELSE parts[1] \o sep \o Join(Tail(parts), sep)

\* the value of a digit string
RECURSIVE DigitsToNat(_)
DigitsToNat(s) == IF s = <<>> THEN 0 ELSE DigitsToNat(SubSeq(s, 1, Len(s) - 1)) * 10 + DigitVal(s[Len(s)])
\* the decimal digits of a natural number
RECURSIVE NatToDigits(_)
NatToDigits(n) == IF n < 10 THEN <<DigitSeq[n + 1]>> ELSE Append(NatToDigits(n \div 10), DigitSeq[(n % 10) + 1])
IntToStr(n) == IF n < 0 THEN <<"-">> \o NatToDigits(-n) ELSE NatToDigits(n)

RECURSIVE DropTrailingZeros(_)
DropTrailingZeros(s) == IF s # <<>> /\ s[Len(s)] = "0" THEN DropTrailingZeros(SubSeq(s, 1, Len(s) - 1)) ELSE s

AllDigits(s) == \A i \in 1..Len(s) : s[i] \in Digits
\* the position of the first "." in s, 0 when there is none
DotPos(s) == IF HasChar(s, ".") THEN CHOOSE i \in 1..Len(s) : s[i] = "." /\ \A j \in 1..(i - 1) : s[j] # "." ELSE 0

NotAFloat == [k |-> "ValueError"]
\* float(s) of an unsigned literal: digits, an optional point, at least one
\* digit; "inf", "infinity" and "nan" in any case.  Exponents and "_" are
\* not modelled: no cell text of the model contains them.
FloatOfUnsigned(u, neg) ==
  LET lo == Lower(u)
      p == DotPos(u)
      ipart == IF p = 0 THEN u ELSE SubSeq(u, 1, p - 1)
      fpart == IF p = 0 THEN <<>> ELSE SubSeq(u, p + 1, Len(u))
  IN IF lo \in {<<"i", "n", "f">>, <<"i", "n", "f", "i", "n", "i", "t", "y">>} THEN F("inf", neg, 0, <<>>)
     ELSE IF lo = <<"n", "a", "n">> THEN F("nan", FALSE, 0, <<>>)
     ELSE IF AllDigits(ipart) /\ AllDigits(fpart) /\ Len(ipart) + Len(fpart) > 0
          THEN F("fin", neg, DigitsToNat(ipart), DropTrailingZeros(fpart))
     ELSE NotAFloat
\* float(s) for a str s
FloatOfStr(s) ==
  LET t == Strip(s)
  IN IF t = <<>> THEN NotAFloat
     ELSE IF Head(t) = "-" THEN FloatOfUnsigned(Tail(t), TRUE)
     ELSE IF Head(t) = "+" THEN FloatOfUnsigned(Tail(t), FALSE)
     ELSE FloatOfUnsigned(t, FALSE)

\* str(v) for the scalar values
Str(v) ==
  CASE v.k = "none" -> <<"N", "o", "n", "e">>
    [] v.k = "str" -> v.s
    [] v.k = "int" -> IntToStr(v.n)
    [] v.k = "bool" -> IF v.b THEN <<"T", "r", "u", "e">> ELSE <<"F", "a", "l", "s", "e">>
    [] v.k = "float" ->
         IF v.cls = "inf" THEN (IF v.neg THEN <<"-">> ELSE <<>>) \o <<"i", "n", "f">>
         ELSE IF v.cls = "nan" THEN <<"n", "a", "n">>
         ELSE (IF v.neg THEN <<"-">> ELSE <<>>) \o NatToDigits(v.ip) \o <<".">>
              \o (IF v.fr = <<>> THEN <<"0">> ELSE v.fr)

\* truth value of a scalar, a list or a dict
Truthy(v) ==
  CASE v.k = "none" -> FALSE
    [] v.k = "str" -> v.s # <<>>
    [] v.k = "int" -> v.n # 0
    [] v.k = "bool" -> v.b
    [] v.k = "float" -> ~(v.cls = "fin" /\ v.ip = 0 /\ v.fr = <<>>)
    [] v.k = "list" -> v.l # <<>>
    [] v.k = "dict" -> DOMAIN v.d # {}

\* pd.isna(v) / not pd.notna(v): a blank cell
IsNa(v) == v.k = "none" \/ (v.k = "float" /\ v.cls = "nan")
\* v == "" in Python
IsEmptyStr(v) == v.k = "str" /\ v.s = <<>>

(***************************************************************************)
(* excel_parser.py: the cell coercion helpers                              *)
(***************************************************************************)
\* an exception leaving a helper
Raised(exc) == [k |-> "raise", exc |-> exc]
IsRaised(v) == v.k = "raise"

TrueWords == {<<"t", "r", "u", "e">>, <<"y", "e", "s">>, <<"1">>, <<"o", "n">>}

\* float(value) for a cell value
FloatOf(value) ==
  CASE value.k = "str" -> FloatOfStr(value.s)
    [] value.k = "int" -> F("fin", value.n < 0, IF value.n < 0 THEN -value.n ELSE value.n, <<>>)
    [] value.k = "bool" -> F("fin", FALSE, IF value.b THEN 1 ELSE 0, <<>>)
    [] value.k = "float" -> value
    [] OTHER -> [k |-> "TypeError"]

\* int(f) of a float: truncation; int(inf) is an OverflowError and int(nan)
\* a ValueError
IntOfFloat(f) ==
  IF f.cls = "inf" THEN Raised("OverflowError")
  ELSE IF f.cls = "nan" THEN Raised("ValueError")
  ELSE I(IF f.neg THEN -f.ip ELSE f.ip)

_parse_boolean(value) ==
  IF IsNa(value) THEN B(FALSE)
  ELSE IF value.k = "bool" THEN value
  ELSE IF value.k = "str" THEN B(Lower(value.s) \in TrueWords)
  ELSE B(Truthy(value))

\* except (ValueError, TypeError): return -1; any other exception leaves
_parse_int(value) ==
  IF IsNa(value) THEN I(-1)
  ELSE LET f == FloatOf(value)
       IN IF f.k # "float" THEN I(-1)
          ELSE LET n == IntOfFloat(f)
               IN IF IsRaised(n) /\ n.exc = "ValueError" THEN I(-1) ELSE n

_parse_number(value) ==
  IF IsNa(value) THEN None
  ELSE LET f == FloatOf(value)
       IN IF f.k # "float" THEN None
          ELSE IF f.cls = "fin" /\ f.fr = <<>> THEN I(IF f.neg THEN -f.ip ELSE f.ip)
          ELSE f

_parse_string(value) ==
  IF IsNa(value) THEN None
  ELSE LET str_val == Strip(Str(value))
       IN IF str_val = <<>> \/ Lower(str_val) = <<"n", "a", "n">> THEN None ELSE S(str_val)

_convert_value(value) ==
  IF value.k = "none" \/ IsEmptyStr(value) THEN None
  ELSE IF value.k \in {"bool", "int", "float"} THEN value
  ELSE LET value_str == Strip(Str(value))
           f == FloatOfStr(value_str)
       IN IF Lower(value_str) \in {<<"t", "r", "u", "e">>, <<"f", "a", "l", "s", "e">>}
          THEN B(Lower(value_str) = <<"t", "r", "u", "e">>)
          ELSE IF ~HasChar(value_str, ".") /\ IsDigit(value_str) THEN I(DigitsToNat(value_str))
          ELSE IF HasChar(value_str, ".") /\ f.k = "float" THEN f
          ELSE S(value_str)

\* [x.strip() for x in s.split(",") if x.strip()]
StripAll(parts) == [i \in 1..Len(parts) |-> Strip(parts[i])]
SplitList(s) == LET p == StripAll(Split(s, ",")) IN SelectSeq(p, LAMBDA x : x # <<>>)
StrList(parts) == [i \in 1..Len(parts) |-> S(parts[i])]

(***************************************************************************)
(* Sheets.  A sheet is its header row and its data rows; a row maps each   *)
(* header to the cell's value.  A word the code only compares or copies    *)
(* (a dictionary key, a column text) is one symbol of a string.            *)
(***************************************************************************)
W(word) == S(<<word>>)
Blank == S(<<>>)
Sheet(header, rows) == [header |-> header, rows |-> rows]
\* a sheet whose only cell is a message in A1
MessageSheet(msg) == Sheet(<<msg>>, <<>>)
ColSet(header) == {header[i] : i \in 1..Len(header)}
\* item.get(key, "") of a dict item
DGet(item, key, default) == Get(item.d, key, default)
\* len(item.get(key, []))
LenOf(item, key) == I(Len(DGet(item, key, L(<<>>)).l))
\* ", ".join(map(str, item.get(key, [])))
JoinOf(item, key) ==
  LET l == DGet(item, key, L(<<>>)).l
  IN S(Join([i \in 1..Len(l) |-> Str(l[i])], <<",", " ">>))
\* one row per record, each cell record.get(key, "")
RecordRows(items, header, keyOf) ==
  [i \in 1..Len(items) |-> [c \in ColSet(header) |-> DGet(items[i], keyOf[c], Blank)]]

(***************************************************************************)
(* generator.py: the projection of a document onto the workbook            *)
(***************************************************************************)
basic_fields ==
  << <<"version", "Contract Version">>, <<"kind", "Contract Kind">>,
     <<"apiVersion", "API Version">>, <<"id", "Unique Identifier">>,
     <<"name", "Contract Name">>, <<"tenant", "Tenant">>, <<"status", "Status">>,
     <<"dataProduct", "Data Product">>, <<"domain", "Domain">>,
     <<"slaDefaultElement", "SLA Default Element">>,
     <<"contractCreatedTs", "Created Timestamp">> >>

_create_basic_info_sheet(data) ==
  Sheet(<<"Field", "Value", "Description">>,
        [i \in 1..Len(basic_fields) |->
           [Field |-> W(basic_fields[i][1]),
            Value |-> S(Str(Get(data, basic_fields[i][1], Blank))),
            Description |-> W(basic_fields[i][2])]])

_create_tags_sheet(tags) ==
  Sheet(<<"Tag">>, [i \in 1..Len(tags.l) |-> [Tag |-> tags.l[i]]])

desc_fields == <<"usage", "purpose", "limitations">>
_create_description_sheet(description) ==
  Sheet(<<"Field", "Value">>,
        [i \in 1..Len(desc_fields) |->
           [Field |-> W(desc_fields[i]), Value |-> S(Str(DGet(description, desc_fields[i], Blank)))]])

ServerHeader == <<"Server", "Type", "Description", "Environment", "Location", "Host", "Port", "Database">>
ServerKey ==
  [c \in ColSet(ServerHeader) |->
     CASE c = "Server" -> "server" [] c = "Type" -> "type" [] c = "Description" -> "description"
       [] c = "Environment" -> "environment" [] c = "Location" -> "location"
       [] c = "Host" -> "host" [] c = "Port" -> "port" [] c = "Database" -> "database"]
_create_servers_sheet(servers) ==
  IF ~Truthy(servers) THEN MessageSheet("No servers defined")
  ELSE Sheet(ServerHeader, RecordRows(servers.l, ServerHeader, ServerKey))

SchemaHeader ==
  <<"Object Name", "Physical Name", "Logical Type", "Physical Type", "Description",
    "Business Name", "Data Granularity", "Tags", "Quality Rules Count",
    "Properties Count", "Auth Definitions Count">>
_create_schema_sheet(schema) ==
  IF ~Truthy(schema) THEN MessageSheet("No schema objects defined")
  ELSE Sheet(SchemaHeader,
        [i \in 1..Len(schema.l) |->
           LET obj == schema.l[i]
           IN [c \in ColSet(SchemaHeader) |->
                 CASE c = "Object Name" -> DGet(obj, "name", Blank)
                   [] c = "Physical Name" -> DGet(obj, "physicalName", Blank)
                   [] c = "Logical Type" -> DGet(obj, "logicalType", Blank)
                   [] c = "Physical Type" -> DGet(obj, "physicalType", Blank)
                   [] c = "Description" -> DGet(obj, "description", Blank)
                   [] c = "Business Name" -> DGet(obj, "businessName", Blank)
                   [] c = "Data Granularity" -> DGet(obj, "dataGranularityDescription", Blank)
                   [] c = "Tags" -> JoinOf(obj, "tags")
                   [] c = "Quality Rules Count" -> LenOf(obj, "quality")
                   [] c = "Properties Count" -> LenOf(obj, "properties")
                   [] c = "Auth Definitions Count" -> LenOf(obj, "authoritativeDefinitions")]])

SupportHeader == <<"Channel", "URL", "Description", "Tool", "Scope">>
SupportKey ==
  [c \in ColSet(SupportHeader) |->
     CASE c = "Channel" -> "channel" [] c = "URL" -> "url" [] c = "Description" -> "description"
       [] c = "Tool" -> "tool" [] c = "Scope" -> "scope"]
_create_support_sheet(support) ==
  IF ~Truthy(support) THEN MessageSheet("No support channels defined")
  ELSE Sheet(SupportHeader, RecordRows(support.l, SupportHeader, SupportKey))

pricing_fields == <<"priceAmount", "priceCurrency", "priceUnit">>
_create_pricing_sheet(pricing) ==
  Sheet(<<"Field", "Value">>,
        [i \in 1..Len(pricing_fields) |->
           [Field |-> W(pricing_fields[i]), Value |-> S(Str(DGet(pricing, pricing_fields[i], Blank)))]])

TeamHeader == <<"Username", "Name", "Role", "Description", "Date In", "Date Out">>
TeamKey ==
  [c \in ColSet(TeamHeader) |->
     CASE c = "Username" -> "username" [] c = "Name" -> "name" [] c = "Role" -> "role"
       [] c = "Description" -> "description" [] c = "Date In" -> "dateIn" [] c = "Date Out" -> "dateOut"]
_create_team_sheet(team) ==
  IF ~Truthy(team) THEN MessageSheet("No team members defined")
  ELSE Sheet(TeamHeader, RecordRows(team.l, TeamHeader, TeamKey))

RolesHeader == <<"Role", "Description", "Access", "First Level Approvers", "Second Level Approvers">>
RolesKey ==
  [c \in ColSet(RolesHeader) |->
     CASE c = "Role" -> "role" [] c = "Description" -> "description" [] c = "Access" -> "access"
       [] c = "First Level Approvers" -> "firstLevelApprovers"
       [] c = "Second Level Approvers" -> "secondLevelApprovers"]
_create_roles_sheet(roles) ==
  IF ~Truthy(roles) THEN MessageSheet("No roles defined")
  ELSE Sheet(RolesHeader, RecordRows(roles.l, RolesHeader, RolesKey))

\* the concatenation of a sequence of sequences
RECURSIVE Concat(_)
Concat(ss) == IF ss = <<>> THEN <<>> ELSE Head(ss) \o Concat(Tail(ss))

\* {"object_name": obj_name, **prop} for every property of every object
all_properties(schema) ==
  Concat([i \in 1..Len(schema.l) |->
    LET obj == schema.l[i]
        props == DGet(obj, "properties", L(<<>>)).l
    IN [j \in 1..Len(props) |->
          Update([object_name |-> DGet(obj, "name", Blank)], props[j].d)]])

PropertiesHeader ==
  <<"Object Name", "Property Name", "Logical Type", "Physical Type", "Physical Name",
    "Description", "Business Name", "Required", "Unique", "Primary Key", "PK Position",
    "Partitioned", "Partition Position", "Classification", "Encrypted Name",
    "Critical Data Element", "Transform Sources", "Transform Logic",
    "Transform Description", "Examples", "Tags", "Quality Rules Count",
    "Auth Definitions Count">>
PropertyCell(prop, c) ==
  CASE c = "Object Name" -> Get(prop, "object_name", Blank)
    [] c = "Property Name" -> Get(prop, "name", Blank)
    [] c = "Logical Type" -> Get(prop, "logicalType", Blank)
    [] c = "Physical Type" -> Get(prop, "physicalType", Blank)
    [] c = "Physical Name" -> Get(prop, "physicalName", Blank)
    [] c = "Description" -> Get(prop, "description", Blank)
    [] c = "Business Name" -> Get(prop, "businessName", Blank)
    [] c = "Required" -> Get(prop, "required", B(FALSE))
    [] c = "Unique" -> Get(prop, "unique", B(FALSE))
    [] c = "Primary Key" -> Get(prop, "primaryKey", B(FALSE))
    [] c = "PK Position" -> Get(prop, "primaryKeyPosition", I(-1))
    [] c = "Partitioned" -> Get(prop, "partitioned", B(FALSE))
    [] c = "Partition Position" -> Get(prop, "partitionKeyPosition", I(-1))
    [] c = "Classification" -> Get(prop, "classification", Blank)
    [] c = "Encrypted Name" -> Get(prop, "encryptedName", Blank)
    [] c = "Critical Data Element" -> Get(prop, "criticalDataElement", B(FALSE))
    [] c = "Transform Sources" -> JoinOf(D(prop), "transformSourceObjects")
    [] c = "Transform Logic" -> Get(prop, "transformLogic", Blank)
    [] c = "Transform Description" -> Get(prop, "transformDescription", Blank)
    [] c = "Examples" -> JoinOf(D(prop), "examples")
    [] c = "Tags" -> JoinOf(D(prop), "tags")
    [] c = "Quality Rules Count" -> LenOf(D(prop), "quality")
    [] c = "Auth Definitions Count" -> LenOf(D(prop), "authoritativeDefinitions")
_create_schema_properties_sheet(schema) ==
  LET all == all_properties(schema)
  IN IF all = <<>> THEN MessageSheet("No schema properties defined")
     ELSE Sheet(PropertiesHeader,
                [i \in 1..Len(all) |-> [c \in ColSet(PropertiesHeader) |-> PropertyCell(all[i], c)]])

\* {"object_name": .., "property_name": .., "logical_type": .., **options}
\* for every property whose logicalTypeOptions is truthy
options_data(schema) ==
  Concat([i \in 1..Len(schema.l) |->
    LET obj == schema.l[i]
        props == DGet(obj, "properties", L(<<>>)).l
        with == SelectSeq(props, LAMBDA prop : Truthy(DGet(prop, "logicalTypeOptions", None)))
    IN [j \in 1..Len(with) |->
          Update([object_name |-> DGet(obj, "name", Blank),
                  property_name |-> DGet(with[j], "name", Blank),
                  logical_type |-> DGet(with[j], "logicalType", Blank)],
                 with[j].d["logicalTypeOptions"].d)]])

OptionsHeader ==
  <<"Object Name", "Property Name", "Logical Type", "Format", "Min Length", "Max Length",
    "Pattern", "Minimum", "Maximum", "Exclusive Minimum", "Exclusive Maximum",
    "Multiple Of", "Min Items", "Max Items", "Unique Items", "Min Properties",
    "Max Properties", "Required Properties">>
OptionsKey ==
  [c \in ColSet(OptionsHeader) |->
     CASE c = "Object Name" -> "object_name" [] c = "Property Name" -> "property_name"
       [] c = "Logical Type" -> "logical_type" [] c = "Format" -> "format"
       [] c = "Min Length" -> "minLength" [] c = "Max Length" -> "maxLength"
       [] c = "Pattern" -> "pattern" [] c = "Minimum" -> "minimum" [] c = "Maximum" -> "maximum"
       [] c = "Exclusive Minimum" -> "exclusiveMinimum"
       [] c = "Exclusive Maximum" -> "exclusiveMaximum" [] c = "Multiple Of" -> "multipleOf"
       [] c = "Min Items" -> "minItems" [] c = "Max Items" -> "maxItems"
       [] c = "Unique Items" -> "uniqueItems" [] c = "Min Properties" -> "minProperties"
       [] c = "Max Properties" -> "maxProperties" [] c = "Required Properties" -> "required"]
_create_logical_type_options_sheet(schema) ==
  LET od == options_data(schema)
  IN IF od = <<>> THEN MessageSheet("No logical type options defined")
     ELSE Sheet(OptionsHeader,
                [i \in 1..Len(od) |->
                   [c \in ColSet(OptionsHeader) |->
                      IF c = "Required Properties" THEN JoinOf(D(od[i]), "required")
                      ELSE Get(od[i], OptionsKey[c], Blank)]])

\* {"object_name": .., "property_name": .., "level": .., **rule} for the rules
\* of an object, then the rules of each of its properties
all_rules(schema) ==
  Concat([i \in 1..Len(schema.l) |->
    LET obj == schema.l[i]
        obj_name == DGet(obj, "name", Blank)
        orules == DGet(obj, "quality", L(<<>>)).l
        props == DGet(obj, "properties", L(<<>>)).l
    IN [j \in 1..Len(orules) |->
          Update([object_name |-> obj_name, property_name |-> Blank, level |-> W("object")],
                 orules[j].d)]
       \o Concat([p \in 1..Len(props) |->
            LET prules == DGet(props[p], "quality", L(<<>>)).l
            IN [j \in 1..Len(prules) |->
                  Update([object_name |-> obj_name,
                          property_name |-> DGet(props[p], "name", Blank),
                          level |-> W("property")],
                         prules[j].d)]])])

RulesHeader ==
  <<"Object Name", "Property Name", "Level", "Name", "Description", "Type", "Rule",
    "Dimension", "Severity", "Business Impact", "Unit", "Valid Values", "Query", "Engine",
    "Implementation", "Must Be", "Must Not Be", "Must Be Greater Than",
    "Must Be Greater Or Equal", "Must Be Less Than", "Must Be Less Or Equal",
    "Must Be Between", "Must Not Be Between", "Method", "Scheduler", "Schedule", "Tags">>
RulesKey ==
  [c \in ColSet(RulesHeader) |->
     CASE c = "Object Name" -> "object_name" [] c = "Property Name" -> "property_name"
       [] c = "Level" -> "level" [] c = "Name" -> "name" [] c = "Description" -> "description"
       [] c = "Type" -> "type" [] c = "Rule" -> "rule" [] c = "Dimension" -> "dimension"
       [] c = "Severity" -> "severity" [] c = "Business Impact" -> "businessImpact"
       [] c = "Unit" -> "unit" [] c = "Valid Values" -> "validValues" [] c = "Query" -> "query"
       [] c = "Engine" -> "engine" [] c = "Implementation" -> "implementation"
       [] c = "Must Be" -> "mustBe" [] c = "Must Not Be" -> "mustNotBe"
       [] c = "Must Be Greater Than" -> "mustBeGreaterThan"
       [] c = "Must Be Greater Or Equal" -> "mustBeGreaterOrEqualTo"
       [] c = "Must Be Less Than" -> "mustBeLessThan"
       [] c = "Must Be Less Or Equal" -> "mustBeLessOrEqualTo"
       [] c = "Must Be Between" -> "mustBeBetween"
       [] c = "Must Not Be Between" -> "mustNotBeBetween" [] c = "Method" -> "method"
       [] c = "Scheduler" -> "scheduler" [] c = "Schedule" -> "schedule" [] c = "Tags" -> "tags"]
JoinedRuleColumns == {"Valid Values", "Must Be Between", "Must Not Be Between", "Tags"}
_create_quality_rules_sheet(schema) ==
  LET ar == all_rules(schema)
  IN IF ar = <<>> THEN MessageSheet("No quality rules defined")
     ELSE Sheet(RulesHeader,
                [i \in 1..Len(ar) |->
                   [c \in ColSet(RulesHeader) |->
                      IF c \in JoinedRuleColumns THEN JoinOf(D(ar[i]), RulesKey[c])
                      ELSE Get(ar[i], RulesKey[c], Blank)]])

SlaHeader == <<"Property", "Value", "Value Ext", "Unit", "Element", "Driver">>
_create_sla_properties_sheet(sla_properties) ==
  IF ~Truthy(sla_properties) THEN MessageSheet("No SLA properties defined")
  ELSE Sheet(SlaHeader,
        [i \in 1..Len(sla_properties.l) |->
           LET prop == sla_properties.l[i]
           IN [c \in ColSet(SlaHeader) |->
                 CASE c = "Property" -> DGet(prop, "property", Blank)
                   [] c = "Value" -> S(Str(DGet(prop, "value", Blank)))
                   [] c = "Value Ext" -> S(Str(DGet(prop, "valueExt", Blank)))
                   [] c = "Unit" -> DGet(prop, "unit", Blank)
                   [] c = "Element" -> DGet(prop, "element", Blank)
                   [] c = "Driver" -> DGet(prop, "driver", Blank)]])

_create_authoritative_definitions_sheet(definitions) ==
  IF ~Truthy(definitions) THEN MessageSheet("No authoritative definitions defined")
  ELSE Sheet(<<"URL", "Type">>,
        [i \in 1..Len(definitions.l) |->
           [URL |-> DGet(definitions.l[i], "url", Blank), Type |-> DGet(definitions.l[i], "type", Blank)]])

_create_custom_properties_sheet(custom_properties) ==
  IF ~Truthy(custom_properties) THEN MessageSheet("No custom properties defined")
  ELSE Sheet(<<"Property", "Value">>,
        [i \in 1..Len(custom_properties.l) |->
           [Property |-> DGet(custom_properties.l[i], "property", Blank),
            Value |-> S(Str(DGet(custom_properties.l[i], "value", Blank)))]])

\* the fifteen sheets in the order they are created
SheetNames ==
  <<"Basic Information", "Tags", "Description", "Servers", "Schema", "Schema Properties",
    "Logical Type Options", "Quality Rules", "Support", "Pricing", "Team", "Roles",
    "SLA Properties", "Authoritative Definitions", "Custom Properties">>

\* the exception _create_workbook raises on a section that is present and
\* None: data.get(key, default) returns None, and the sheet writers of tags
\* (enumerate), description (.get), schema properties (for obj in schema)
\* and price (.get) use it without a test; the others test "if not section"
IsNull(data, key) == key \in DOMAIN data /\ data[key] = None
CreateError(data) ==
  IF IsNull(data, "tags") THEN "TypeError"
  ELSE IF IsNull(data, "description") THEN "AttributeError"
  ELSE IF IsNull(data, "schema") THEN "TypeError"
  ELSE IF IsNull(data, "price") THEN "AttributeError"
  ELSE "none"

\* variant: no Tags sheet for a document without tags
CreatedSheets_populated(data) ==
  SelectSeq(SheetNames, LAMBDA n : n # "Tags" \/ Truthy(Get(data, "tags", L(<<>>))))
\* the titles in the order of the create_sheet calls: every _create_*_sheet
\* creates its sheet before it looks at its section
CreatedSheets(data) == SheetNames
\* the sheet one _create_..._sheet call of _create_workbook writes
_create_sheet(data, n) ==
  LET schema == Get(data, "schema", L(<<>>))
  IN CASE n = "Basic Information" -> _create_basic_info_sheet(data)
       [] n = "Tags" -> _create_tags_sheet(Get(data, "tags", L(<<>>)))
       [] n = "Description" -> _create_description_sheet(Get(data, "description", D(EmptyDict)))
       [] n = "Servers" -> _create_servers_sheet(Get(data, "servers", L(<<>>)))
       [] n = "Schema" -> _create_schema_sheet(schema)
       [] n = "Schema Properties" -> _create_schema_properties_sheet(schema)
       [] n = "Logical Type Options" -> _create_logical_type_options_sheet(schema)
       [] n = "Quality Rules" -> _create_quality_rules_sheet(schema)
       [] n = "Support" -> _create_support_sheet(Get(data, "support", L(<<>>)))
       [] n = "Pricing" -> _create_pricing_sheet(Get(data, "price", D(EmptyDict)))
       [] n = "Team" -> _create_team_sheet(Get(data, "team", L(<<>>)))
       [] n = "Roles" -> _create_roles_sheet(Get(data, "roles", L(<<>>)))
       [] n = "SLA Properties" -> _create_sla_properties_sheet(Get(data, "slaProperties", L(<<>>)))
       [] n = "Authoritative Definitions" ->
            _create_authoritative_definitions_sheet(Get(data, "authoritativeDefinitions", L(<<>>)))
       [] n = "Custom Properties" ->
            _create_custom_properties_sheet(Get(data, "customProperties", L(<<>>)))

_create_workbook(data) == [n \in ColSet(CreatedSheets(data)) |-> _create_sheet(data, n)]

(***************************************************************************)
(* excel_parser.py: loading the sheets                                     *)
(***************************************************************************)
\* the value openpyxl reads from a cell: a cell written as "" is stored
\* without a value and reads as None.  A blank cell is None in the
\* DataFrame; in a numeric column pandas makes it NaN, which the helpers
\* that read such columns treat like None (pd.isna)
ReadCell(c) == IF IsEmptyStr(c) THEN None ELSE c
\* a sheet as a DataFrame: the header row names the columns, rows without
\* any value are skipped
LoadSheet(sheet) ==
  LET read == [i \in 1..Len(sheet.rows) |-> [c \in DOMAIN sheet.rows[i] |-> ReadCell(sheet.rows[i][c])]]
  IN [columns |-> ColSet(sheet.header),
      rows |-> SelectSeq(read, LAMBDA row : \E c \in DOMAIN row : row[c].k # "none")]
_load_all_worksheets(workbook) == [n \in DOMAIN workbook |-> LoadSheet(workbook[n])]

\* df.empty
DfEmpty(df) == df.rows = <<>> \/ df.columns = {}
\* row.get(col) and row.get(col, default)
Cell(row, col) == Get(row, col, None)
CellOr(row, col, default) == Get(row, col, default)
\* the dictionary key a Field cell names
KeyOf(field) == field.s[1]

(***************************************************************************)
(* excel_parser.py: the flat sections                                      *)
(***************************************************************************)
IsoDate(s) ==
  /\ Len(s) = 10
  /\ \A i \in {1, 2, 3, 4, 6, 7, 9, 10} : s[i] \in Digits
  /\ s[5] = "-" /\ s[8] = "-"
IsoTime(s) ==
  /\ Len(s) = 8
  /\ \A i \in {1, 2, 4, 5, 7, 8} : s[i] \in Digits
  /\ s[3] = ":" /\ s[6] = ":"
\* datetime.fromisoformat(s).isoformat() for the forms YYYY-MM-DD and
\* YYYY-MM-DDTHH:MM:SS with an optional +00:00; anything else is a ValueError
IsoFormat(s) ==
  LET utc == <<"+", "0", "0", ":", "0", "0">>
      hasUtc == Len(s) > 6 /\ SubSeq(s, Len(s) - 5, Len(s)) = utc
      body == IF hasUtc THEN SubSeq(s, 1, Len(s) - 6) ELSE s
      midnight == <<"T", "0", "0", ":", "0", "0", ":", "0", "0">>
  IN IF IsoDate(body) THEN S(body \o midnight \o (IF hasUtc THEN utc ELSE <<>>))
     ELSE IF Len(body) = 19 /\ IsoDate(SubSeq(body, 1, 10)) /\ body[11] \in {"T", " "}
             /\ IsoTime(SubSeq(body, 12, 19))
          THEN S(SubSeq(body, 1, 10) \o <<"T">> \o SubSeq(body, 12, 19) \o (IF hasUtc THEN utc ELSE <<>>))
     ELSE NotAFloat

BasicValue(field, value) ==
  IF field = W("contractCreatedTs") /\ Truthy(value)
  THEN IF value.k = "str"
       THEN LET iso == IsoFormat(Replace(value.s, "Z", <<"+", "0", "0", ":", "0", "0">>))
            IN IF iso.k = "str" THEN iso ELSE S(Str(value))
       ELSE value
  ELSE _convert_value(value)

\* the Field/Value rows of a sheet as a dictionary: a row sets data[field]
\* when the field is truthy and the value is not None, a later row overwriting
\* an earlier one
FieldValueRows(rows, conv(_, _)) ==
  LET sets(i) == Truthy(Cell(rows[i], "Field")) /\ Cell(rows[i], "Value").k # "none"
      keys == {KeyOf(Cell(rows[i], "Field")) : i \in {j \in 1..Len(rows) : sets(j)}}
      last(key) == CHOOSE i \in 1..Len(rows) :
                     /\ sets(i) /\ KeyOf(Cell(rows[i], "Field")) = key
                     /\ \A j \in (i + 1)..Len(rows) : ~(sets(j) /\ KeyOf(Cell(rows[j], "Field")) = key)
  IN [key \in keys |-> conv(Cell(rows[last(key)], "Field"), Cell(rows[last(key)], "Value"))]

HasSheet(worksheets, sheet_name) == sheet_name \in DOMAIN worksheets
FieldValueSheet(worksheets, sheet_name) ==
  /\ HasSheet(worksheets, sheet_name)
  /\ ~DfEmpty(worksheets[sheet_name])
  /\ {"Field", "Value"} \subseteq worksheets[sheet_name].columns

_parse_basic_information(worksheets) ==
  IF ~FieldValueSheet(worksheets, "Basic Information") THEN EmptyDict
  ELSE FieldValueRows(worksheets["Basic Information"].rows, BasicValue)

\* {key: value} if value else {}
Section(key, value) == IF Truthy(value) THEN Put(EmptyDict, key, value) ELSE EmptyDict

_parse_tags(worksheets) ==
  IF ~HasSheet(worksheets, "Tags") THEN EmptyDict
  ELSE LET df == worksheets["Tags"]
       IN IF DfEmpty(df) \/ "Tag" \notin df.columns THEN EmptyDict
          ELSE LET kept == SelectSeq(df.rows, LAMBDA row : Truthy(Cell(row, "Tag")))
               IN Section("tags", L([i \in 1..Len(kept) |-> S(Str(Cell(kept[i], "Tag")))]))

DescriptionValue(field, value) == S(Str(value))
_parse_description(worksheets) ==
  IF ~FieldValueSheet(worksheets, "Description") THEN EmptyDict
  ELSE Section("description",
               D(FieldValueRows(worksheets["Description"].rows, DescriptionValue)))

\* int(value): a str must be an optionally signed digit string
IntOf(value) ==
  CASE value.k = "int" -> value
    [] value.k = "bool" -> I(IF value.b THEN 1 ELSE 0)
    [] value.k = "float" -> IntOfFloat(value)
    [] value.k = "str" ->
         LET t == Strip(value.s)
             u == IF t # <<>> /\ Head(t) \in {"-", "+"} THEN Tail(t) ELSE t
         IN IF IsDigit(u) THEN I(IF Head(t) = "-" THEN -DigitsToNat(u) ELSE DigitsToNat(u))
            ELSE Raised("ValueError")
    [] OTHER -> Raised("TypeError")

\* one record of a flat sheet: for each mapped column that has a value,
\* record[key] = conv(key, value)
MapRow(row, mapping, conv(_, _)) ==
  LET has(i) == Cell(row, mapping[i][1]).k # "none" /\ ~IsEmptyStr(Cell(row, mapping[i][1]))
      col(key) == mapping[CHOOSE i \in 1..Len(mapping) : mapping[i][2] = key][1]
  IN [key \in {mapping[i][2] : i \in {j \in 1..Len(mapping) : has(j)}} |-> conv(key, Cell(row, col(key)))]
\* the records of a flat sheet, empty ones left out
MapRows(df, mapping, conv(_, _)) ==
  LET recs == [i \in 1..Len(df.rows) |-> D(MapRow(df.rows[i], mapping, conv))]
  IN L(SelectSeq(recs, Truthy))
FlatSection(worksheets, sheet_name, key, mapping, conv(_, _)) ==
  IF ~HasSheet(worksheets, sheet_name) THEN EmptyDict
  ELSE IF DfEmpty(worksheets[sheet_name]) THEN EmptyDict
  ELSE Section(key, MapRows(worksheets[sheet_name], mapping, conv))

StrValue(odcs_field, value) == S(Str(value))
\* a value that raised while a record was built
RECURSIVE AnyRaised(_)
AnyRaised(v) ==
  CASE v.k = "raise" -> TRUE
    [] v.k = "list" -> \E i \in 1..Len(v.l) : AnyRaised(v.l[i])
    [] v.k = "dict" -> \E key \in DOMAIN v.d : AnyRaised(v.d[key])
    [] OTHER -> FALSE
\* the first exception in v, depth first
RECURSIVE TheRaised(_)
TheRaised(v) ==
  CASE v.k = "raise" -> v
    [] v.k = "list" -> TheRaised(v.l[CHOOSE i \in 1..Len(v.l) : AnyRaised(v.l[i])])
    [] v.k = "dict" -> TheRaised(v.d[CHOOSE key \in DOMAIN v.d : AnyRaised(v.d[key])])

ServerMapping ==
  << <<"Server", "server">>, <<"Type", "type">>, <<"Description", "description">>,
     <<"Environment", "environment">>, <<"Location", "location">>, <<"Host", "host">>,
     <<"Port", "port">>, <<"Database", "database">>, <<"Schema", "schema">>,
     <<"Project", "project">>, <<"Catalog", "catalog">>, <<"Format", "format">> >>
\* except (ValueError, TypeError): keep the value; any other exception leaves
ServerValue(odcs_field, value) ==
  IF odcs_field = "port"
  THEN LET n == IntOf(value) IN IF IsRaised(n) /\ n.exc \in {"ValueError", "TypeError"} THEN value ELSE n
  ELSE S(Str(value))
_parse_servers(worksheets) == FlatSection(worksheets, "Servers", "servers", ServerMapping, ServerValue)

SchemaMapping ==
  << <<"Object Name", "name">>, <<"Physical Name", "physicalName">>,
     <<"Logical Type", "logicalType">>, <<"Physical Type", "physicalType">>,
     <<"Description", "description">>, <<"Business Name", "businessName">> >>
_parse_schema(worksheets) == FlatSection(worksheets, "Schema", "schema", SchemaMapping, StrValue)

SupportMapping ==
  << <<"Channel", "channel">>, <<"URL", "url">>, <<"Description", "description">>,
     <<"Tool", "tool">>, <<"Scope", "scope">> >>
_parse_support(worksheets) == FlatSection(worksheets, "Support", "support", SupportMapping, StrValue)

\* float(value) for priceAmount, the value itself when it is no number
PricingValue(field, value) ==
  IF field = W("priceAmount")
  THEN LET f == FloatOf(value) IN IF f.k = "float" THEN f ELSE value
  ELSE S(Str(value))
_parse_pricing(worksheets) ==
  IF ~FieldValueSheet(worksheets, "Pricing") THEN EmptyDict
  ELSE Section("price", D(FieldValueRows(worksheets["Pricing"].rows, PricingValue)))

TeamMapping ==
  << <<"Username", "username">>, <<"Name", "name">>, <<"Role", "role">>,
     <<"Description", "description">>, <<"Date In", "dateIn">>, <<"Date Out", "dateOut">> >>
_parse_team(worksheets) == FlatSection(worksheets, "Team", "team", TeamMapping, StrValue)

RolesMapping ==
  << <<"Role", "role">>, <<"Description", "description">>, <<"Access", "access">>,
     <<"First Level Approvers", "firstLevelApprovers">>,
     <<"Second Level Approvers", "secondLevelApprovers">> >>
_parse_roles(worksheets) == FlatSection(worksheets, "Roles", "roles", RolesMapping, StrValue)

SlaMapping ==
  << <<"Property", "property">>, <<"Value", "value">>, <<"Value Ext", "valueExt">>,
     <<"Unit", "unit">>, <<"Element", "element">>, <<"Driver", "driver">> >>
SlaValue(odcs_field, value) ==
  IF odcs_field \in {"value", "valueExt"} THEN _convert_value(value) ELSE S(Str(value))
_parse_sla_properties(worksheets) ==
  FlatSection(worksheets, "SLA Properties", "slaProperties", SlaMapping, SlaValue)

\* a key is set only for a truthy cell
DefinitionOf(row) ==
  LET url == Cell(row, "URL")
      type_val == Cell(row, "Type")
      d1 == IF Truthy(url) THEN Put(EmptyDict, "url", S(Str(url))) ELSE EmptyDict
  IN D(IF Truthy(type_val) THEN Put(d1, "type", S(Str(type_val))) ELSE d1)
_parse_authoritative_definitions(worksheets) ==
  IF ~HasSheet(worksheets, "Authoritative Definitions") THEN EmptyDict
  ELSE LET df == worksheets["Authoritative Definitions"]
       IN IF DfEmpty(df) THEN EmptyDict
          ELSE Section("authoritativeDefinitions",
                 L(SelectSeq([i \in 1..Len(df.rows) |-> DefinitionOf(df.rows[i])], Truthy)))

_parse_custom_properties(worksheets) ==
  IF ~HasSheet(worksheets, "Custom Properties") THEN EmptyDict
  ELSE LET df == worksheets["Custom Properties"]
       IN IF DfEmpty(df) \/ ~({"Property", "Value"} \subseteq df.columns) THEN EmptyDict
          ELSE LET kept == SelectSeq(df.rows,
                             LAMBDA row : Truthy(Cell(row, "Property")) /\ Cell(row, "Value").k # "none")
               IN Section("customProperties",
                    L([i \in 1..Len(kept) |->
                         D([property |-> S(Str(Cell(kept[i], "Property"))),
                            value |-> _convert_value(Cell(kept[i], "Value"))])]))

(***************************************************************************)
(* excel_parser.py: joining the schema sheets                              *)
(***************************************************************************)
\* {k: v for k, v in d.items() if v is not None and v != ""}
DropNoneAndEmpty(d) == Restrict(d, {key \in DOMAIN d : d[key].k # "none" /\ ~IsEmptyStr(d[key])})
\* obj["name"] of some object of the list is a KeyError
SomeNameless(schema) == \E i \in 1..Len(schema) : "name" \notin DOMAIN schema[i].d
\* the list a comma-separated cell holds, set only when the cell has text
ListField(d, key, cell) ==
  LET str == _parse_string(cell) IN IF Truthy(str) THEN Put(d, key, L(StrList(SplitList(str.s)))) ELSE d

\* the property a Schema Properties row describes
PropertyOf(row) ==
  LET prop ==
        [name |-> S(Str(CellOr(row, "Property Name", Blank))),
         logicalType |-> _parse_string(Cell(row, "Logical Type")),
         physicalType |-> _parse_string(Cell(row, "Physical Type")),
         physicalName |-> _parse_string(Cell(row, "Physical Name")),
         description |-> _parse_string(Cell(row, "Description")),
         businessName |-> _parse_string(Cell(row, "Business Name")),
         required |-> _parse_boolean(CellOr(row, "Required", B(FALSE))),
         unique |-> _parse_boolean(CellOr(row, "Unique", B(FALSE))),
         primaryKey |-> _parse_boolean(CellOr(row, "Primary Key", B(FALSE))),
         primaryKeyPosition |-> _parse_int(CellOr(row, "PK Position", I(-1))),
         partitioned |-> _parse_boolean(CellOr(row, "Partitioned", B(FALSE))),
         partitionKeyPosition |-> _parse_int(CellOr(row, "Partition Position", I(-1))),
         classification |-> _parse_string(Cell(row, "Classification")),
         encryptedName |-> _parse_string(Cell(row, "Encrypted Name")),
         criticalDataElement |-> _parse_boolean(CellOr(row, "Critical Data Element", B(FALSE))),
         transformLogic |-> _parse_string(Cell(row, "Transform Logic")),
         transformDescription |-> _parse_string(Cell(row, "Transform Description"))]
      p1 == ListField(prop, "transformSourceObjects", Cell(row, "Transform Sources"))
      p2 == ListField(p1, "examples", Cell(row, "Examples"))
      p3 == ListField(p2, "tags", Cell(row, "Tags"))
      p4 == Put(Put(p3, "quality", L(<<>>)), "authoritativeDefinitions", L(<<>>))
  IN D(DropNoneAndEmpty(p4))

\* variant: every row goes to the first object
NamedObject_first(schema, obj_name) == 1
\* the object schema_objects[obj_name] refers to: the last one of that name
NamedObject(schema, obj_name) ==
  CHOOSE i \in 1..Len(schema) :
    /\ schema[i].d["name"] = obj_name
    /\ \A j \in (i + 1)..Len(schema) : schema[j].d["name"] # obj_name
\* obj_name in schema_objects and pd.notna(row.get("Property Name"))
PropertyRowJoins(schema, row) ==
  /\ \E i \in 1..Len(schema) : schema[i].d["name"] = S(Str(CellOr(row, "Object Name", Blank)))
  /\ ~IsNa(Cell(row, "Property Name"))

\* the rows in order: a joining row appends its property to its object
RECURSIVE AttachProperties(_, _)
AttachProperties(rows, schema) ==
  IF rows = <<>> THEN L(schema)
  ELSE IF ~PropertyRowJoins(schema, Head(rows)) THEN AttachProperties(Tail(rows), schema)
  ELSE LET prop == PropertyOf(Head(rows))
           at == NamedObject(schema, S(Str(CellOr(Head(rows), "Object Name", Blank))))
       IN IF AnyRaised(prop) THEN TheRaised(prop)
          ELSE AttachProperties(Tail(rows),
                 [i \in 1..Len(schema) |->
                    IF i = at
                    THEN D(Put(schema[i].d, "properties", L(Append(schema[i].d["properties"].l, prop))))
                    ELSE schema[i]])

\* obj["properties"] = [] where the object has none
InitProperties(schema) ==
  [i \in 1..Len(schema) |->
     IF "properties" \in DOMAIN schema[i].d THEN schema[i] ELSE D(Put(schema[i].d, "properties", L(<<>>)))]

\* the document with its schema replaced, or the exception raised
WithSchema(odcs_data, schema) == IF IsRaised(schema) THEN schema ELSE D(Put(odcs_data, "schema", schema))

_enhance_schema_with_properties(worksheets, odcs_data) ==
  IF ~HasSheet(worksheets, "Schema Properties") \/ "schema" \notin DOMAIN odcs_data THEN D(odcs_data)
  ELSE IF DfEmpty(worksheets["Schema Properties"]) THEN D(odcs_data)
  ELSE IF SomeNameless(odcs_data["schema"].l) THEN Raised("KeyError")
  ELSE WithSchema(odcs_data,
         AttachProperties(worksheets["Schema Properties"].rows, InitProperties(odcs_data["schema"].l)))

OptionColumns ==
  << <<"Format", "format", "string">>, <<"Min Length", "minLength", "int">>,
     <<"Max Length", "maxLength", "int">>, <<"Pattern", "pattern", "string">>,
     <<"Minimum", "minimum", "number">>, <<"Maximum", "maximum", "number">>,
     <<"Exclusive Minimum", "exclusiveMinimum", "boolean">>,
     <<"Exclusive Maximum", "exclusiveMaximum", "boolean">>,
     <<"Multiple Of", "multipleOf", "number">>, <<"Min Items", "minItems", "int">>,
     <<"Max Items", "maxItems", "int">>, <<"Unique Items", "uniqueItems", "boolean">>,
     <<"Min Properties", "minProperties", "int">>, <<"Max Properties", "maxProperties", "int">> >>
ParseAs(kind, cell) ==
  CASE kind = "string" -> _parse_string(cell)
    [] kind = "int" -> _parse_int(cell)
    [] kind = "number" -> _parse_number(cell)
    [] kind = "boolean" -> _parse_boolean(cell)
\* the options a Logical Type Options row holds: one key per cell that is
\* not blank
OptionsOf(row) ==
  LET set == {i \in 1..Len(OptionColumns) : ~IsNa(Cell(row, OptionColumns[i][1]))}
      at(key) == CHOOSE i \in set : OptionColumns[i][2] = key
      options == [key \in {OptionColumns[i][2] : i \in set} |->
                    ParseAs(OptionColumns[at(key)][3], Cell(row, OptionColumns[at(key)][1]))]
  IN D(ListField(options, "required", Cell(row, "Required Properties")))

\* the properties of an object with the row's options set on each property
\* the row names
SetOptions(props, prop_name, options) ==
  [j \in 1..Len(props) |->
     IF props[j].d["name"] = prop_name /\ Truthy(options)
     THEN D(Put(props[j].d, "logicalTypeOptions", options)) ELSE props[j]]

RECURSIVE AttachOptions(_, _)
AttachOptions(rows, schema) ==
  IF rows = <<>> THEN L(schema)
  ELSE LET row == Head(rows)
           obj_name == S(Str(CellOr(row, "Object Name", Blank)))
           prop_name == S(Str(CellOr(row, "Property Name", Blank)))
           hit(i) == /\ schema[i].d["name"] = obj_name
                     /\ \E j \in 1..Len(DGet(schema[i], "properties", L(<<>>)).l) :
                          DGet(schema[i], "properties", L(<<>>)).l[j].d["name"] = prop_name
           options == OptionsOf(row)
       IN IF (\E i \in 1..Len(schema) : hit(i)) /\ AnyRaised(options) THEN TheRaised(options)
          ELSE AttachOptions(Tail(rows),
                 [i \in 1..Len(schema) |->
                    IF hit(i)
                    THEN D(Put(schema[i].d, "properties",
                               L(SetOptions(schema[i].d["properties"].l, prop_name, options))))
                    ELSE schema[i]])

\* a nameless object and an exception raised by a cell both end the call;
\* the nameless object is reported when both are present
_enhance_schema_with_logical_type_options(worksheets, odcs_data) ==
  IF ~HasSheet(worksheets, "Logical Type Options") \/ "schema" \notin DOMAIN odcs_data THEN D(odcs_data)
  ELSE IF DfEmpty(worksheets["Logical Type Options"]) THEN D(odcs_data)
  ELSE IF SomeNameless(odcs_data["schema"].l) THEN Raised("KeyError")
  ELSE WithSchema(odcs_data, AttachOptions(worksheets["Logical Type Options"].rows, odcs_data["schema"].l))

RuleStringColumns ==
  << <<"Name", "name">>, <<"Description", "description">>, <<"Rule", "rule">>,
     <<"Dimension", "dimension">>, <<"Severity", "severity">>,
     <<"Business Impact", "businessImpact">>, <<"Unit", "unit">>, <<"Query", "query">>,
     <<"Engine", "engine">>, <<"Implementation", "implementation">>, <<"Method", "method">>,
     <<"Scheduler", "scheduler">>, <<"Schedule", "schedule">> >>
RuleNumberColumns ==
  << <<"Must Be", "mustBe">>, <<"Must Not Be", "mustNotBe">>,
     <<"Must Be Greater Than", "mustBeGreaterThan">>,
     <<"Must Be Greater Or Equal", "mustBeGreaterOrEqualTo">>,
     <<"Must Be Less Than", "mustBeLessThan">>,
     <<"Must Be Less Or Equal", "mustBeLessOrEqualTo">> >>
\* [self._parse_number(v.strip()) for v in s.split(",") if v.strip()]
NumberList(d, key, cell) ==
  LET str == _parse_string(cell)
      parts == IF Truthy(str) THEN SplitList(str.s) ELSE <<>>
  IN IF Truthy(str) THEN Put(d, key, L([i \in 1..Len(parts) |-> _parse_number(S(parts[i]))])) ELSE d

\* the rule a Quality Rules row describes
RuleOf(row) ==
  LET type == _parse_string(Cell(row, "Type"))
      strings == [key \in {RuleStringColumns[i][2] : i \in 1..Len(RuleStringColumns)} |->
                    _parse_string(Cell(row,
                      RuleStringColumns[CHOOSE i \in 1..Len(RuleStringColumns) : RuleStringColumns[i][2] = key][1]))]
      r0 == Put(strings, "type", IF Truthy(type) THEN type ELSE W("library"))
      nset == {i \in 1..Len(RuleNumberColumns) : ~IsNa(Cell(row, RuleNumberColumns[i][1]))}
      numbers == [key \in {RuleNumberColumns[i][2] : i \in nset} |->
                    _parse_number(Cell(row,
                      RuleNumberColumns[CHOOSE i \in nset : RuleNumberColumns[i][2] = key][1]))]
      r1 == Update(r0, numbers)
      r2 == NumberList(r1, "mustBeBetween", Cell(row, "Must Be Between"))
      r3 == NumberList(r2, "mustNotBeBetween", Cell(row, "Must Not Be Between"))
      r4 == ListField(r3, "validValues", Cell(row, "Valid Values"))
      r5 == ListField(r4, "tags", Cell(row, "Tags"))
  IN D(DropNoneAndEmpty(r5))

\* obj["quality"] = [] and prop["quality"] = [] where there is none
InitQuality(schema) ==
  [i \in 1..Len(schema) |->
     LET o1 == IF "quality" \in DOMAIN schema[i].d THEN schema[i].d ELSE Put(schema[i].d, "quality", L(<<>>))
     IN D(IF "properties" \in DOMAIN o1
          THEN Put(o1, "properties",
                 L([j \in 1..Len(o1["properties"].l) |->
                      LET prop == o1["properties"].l[j]
                      IN IF "quality" \in DOMAIN prop.d THEN prop ELSE D(Put(prop.d, "quality", L(<<>>)))]))
          ELSE o1)]

\* if not pd.notna(Name) and not pd.notna(Description): continue
RuleRowSkipped(row) == IsNa(Cell(row, "Name")) /\ IsNa(Cell(row, "Description"))
\* level == "object" or not prop_name
ToObject(level, prop_name) == level = W("object") \/ ~Truthy(prop_name)
\* level == "property" and prop_name
ToProperty(level, prop_name) == level = W("property") /\ Truthy(prop_name)

\* the object with the rule appended where the row says
AttachRule(obj, rule, level, prop_name) ==
  IF ToObject(level, prop_name)
  THEN D(Put(obj.d, "quality", L(Append(DGet(obj, "quality", L(<<>>)).l, rule))))
  ELSE IF ToProperty(level, prop_name) /\ "properties" \in DOMAIN obj.d
  THEN D(Put(obj.d, "properties",
           L([j \in 1..Len(obj.d["properties"].l) |->
                LET prop == obj.d["properties"].l[j]
                IN IF prop.d["name"] = prop_name
                   THEN D(Put(prop.d, "quality", L(Append(DGet(prop, "quality", L(<<>>)).l, rule))))
                   ELSE prop])))
  ELSE obj

RECURSIVE AttachRules(_, _)
AttachRules(rows, schema) ==
  IF rows = <<>> THEN L(schema)
  ELSE IF RuleRowSkipped(Head(rows)) THEN AttachRules(Tail(rows), schema)
  ELSE IF SomeNameless(schema) THEN Raised("KeyError")
  ELSE LET row == Head(rows)
           obj_name == S(Str(CellOr(row, "Object Name", Blank)))
           prop_name == S(Str(CellOr(row, "Property Name", Blank)))
           level == S(Str(CellOr(row, "Level", Blank)))
       IN AttachRules(Tail(rows),
            [i \in 1..Len(schema) |->
               IF schema[i].d["name"] = obj_name
               THEN AttachRule(schema[i], RuleOf(row), level, prop_name) ELSE schema[i]])

_enhance_schema_with_quality_rules(worksheets, odcs_data) ==
  IF ~HasSheet(worksheets, "Quality Rules") \/ "schema" \notin DOMAIN odcs_data THEN D(odcs_data)
  ELSE IF DfEmpty(worksheets["Quality Rules"]) THEN D(odcs_data)
  ELSE WithSchema(odcs_data, AttachRules(worksheets["Quality Rules"].rows, InitQuality(odcs_data["schema"].l)))

(***************************************************************************)
(* excel_parser.py: the data cleaner                                       *)
(***************************************************************************)
RECURSIVE _clean_data(_)
\* the items of a list: a dict item is cleaned and kept when not empty, any
\* other item is kept unless it is None or ""
CleanList(items) ==
  LET cleaned == [i \in 1..Len(items) |-> IF items[i].k = "dict" THEN D(_clean_data(items[i].d)) ELSE items[i]]
  IN SelectSeq(cleaned, LAMBDA item : IF item.k = "dict" THEN DOMAIN item.d # {}
                                      ELSE item.k # "none" /\ ~IsEmptyStr(item))
CleanValue(value) ==
  CASE value.k = "dict" -> D(_clean_data(value.d))
    [] value.k = "list" -> L(CleanList(value.l))
    [] OTHER -> value
\* variant: a key is dropped when its value is empty before the children
\* are cleaned
_clean_data_shallow(data) ==
  LET kept == {key \in DOMAIN data :
                 /\ data[key].k # "none" /\ ~IsEmptyStr(data[key])
                 /\ data[key] # L(<<>>) /\ data[key] # D(EmptyDict)}
  IN [key \in kept |-> CleanValue(data[key])]
\* variant: a key is kept when its cleaned value is truthy
_clean_data_truthy(data) ==
  LET kept == {key \in DOMAIN data : Truthy(CleanValue(data[key]))}
  IN [key \in kept |-> CleanValue(data[key])]
_clean_data(data) ==
  LET kept == {key \in DOMAIN data :
                 CASE data[key].k = "none" -> FALSE
                   [] data[key].k = "dict" -> DOMAIN _clean_data(data[key].d) # {}
                   [] data[key].k = "list" -> CleanList(data[key].l) # <<>>
                   [] OTHER -> ~IsEmptyStr(data[key])}
  IN [key \in kept |-> CleanValue(data[key])]

(***************************************************************************)
(* models.py: the contract schema.  Each operator is TRUE when pydantic    *)
(* accepts the value for the field type.                                   *)
(***************************************************************************)
IsStr(v) == v.k = "str"
OptStr(v) == v.k \in {"none", "str"}
IsAny(v) == TRUE
\* bool fields accept a bool, 0 and 1, and the words pydantic reads as bools
BoolWords ==
  {<<"0">>, <<"o", "f", "f">>, <<"f">>, <<"f", "a", "l", "s", "e">>, <<"n">>, <<"n", "o">>,
   <<"1">>, <<"o", "n">>, <<"t">>, <<"t", "r", "u", "e">>, <<"y">>, <<"y", "e", "s">>}
TrueBoolWords == {<<"1">>, <<"o", "n">>, <<"t">>, <<"t", "r", "u", "e">>, <<"y">>, <<"y", "e", "s">>}
IsBool(v) ==
  CASE v.k = "bool" -> TRUE
    [] v.k = "int" -> v.n \in {0, 1}
    [] v.k = "float" -> v.cls = "fin" /\ v.fr = <<>> /\ v.ip \in {0, 1}
    [] v.k = "str" -> Lower(v.s) \in BoolWords
    [] OTHER -> FALSE
OptBool(v) == v.k = "none" \/ IsBool(v)
\* the bool pydantic makes of an accepted value
BoolValue(v) ==
  CASE v.k = "bool" -> v.b
    [] v.k = "int" -> v.n = 1
    [] v.k = "float" -> v.ip = 1
    [] v.k = "str" -> Lower(v.s) \in TrueBoolWords
    [] OTHER -> FALSE
\* int fields accept an int, a bool, a float without fraction and a digit string
IsInt(v) ==
  CASE v.k \in {"int", "bool"} -> TRUE
    [] v.k = "float" -> v.cls = "fin" /\ v.fr = <<>>
    [] v.k = "str" -> ~IsRaised(IntOf(v))
    [] OTHER -> FALSE
OptInt(v) == v.k = "none" \/ IsInt(v)
\* the int pydantic makes of an accepted value
IntValue(v) ==
  CASE v.k = "int" -> v.n
    [] v.k = "bool" -> IF v.b THEN 1 ELSE 0
    [] v.k = "float" -> IF v.neg THEN -v.ip ELSE v.ip
    [] v.k = "str" -> IntOf(v).n
\* Union[int, float]
IsNumber(v) ==
  CASE v.k \in {"int", "float", "bool"} -> TRUE
    [] v.k = "str" -> FloatOfStr(v.s).k = "float"
    [] OTHER -> FALSE
OptNumber(v) == v.k = "none" \/ IsNumber(v)
OptStrList(v) == v.k = "none" \/ (v.k = "list" /\ \A i \in 1..Len(v.l) : IsStr(v.l[i]))
OptAnyList(v) == v.k \in {"none", "list"}
OptNumberList(v) == v.k = "none" \/ (v.k = "list" /\ \A i \in 1..Len(v.l) : IsNumber(v.l[i]))
\* HttpUrl: a string that starts with a scheme and "://"
IsUrl(v) == v.k = "str" /\ Len(v.s) >= 3 /\ v.s[1] \in {"http", "https"} /\ v.s[2] = "://"
\* Optional[datetime]
OptDateTime(v) ==
  CASE v.k = "none" -> TRUE
    [] v.k = "str" -> IsoFormat(Replace(v.s, "Z", <<"+", "0", "0", ":", "0", "0">>)).k = "str"
    [] v.k \in {"int", "float"} -> TRUE
    [] OTHER -> FALSE

\* a field that may be left out, and a field that must be present
Opt(d, key, Accepts(_)) == key \notin DOMAIN d \/ Accepts(d[key])
Req(d, key, Accepts(_)) == key \in DOMAIN d /\ Accepts(d[key])
\* Optional[List[Model]]
OptListOf(v, Model(_)) == v.k = "none" \/ (v.k = "list" /\ \A i \in 1..Len(v.l) : Model(v.l[i]))

ApiVersionEnum ==
  {<<"v", "3", ".", "1", ".", "0">>, <<"v", "3", ".", "0", ".", "2">>,
   <<"v", "3", ".", "0", ".", "1">>, <<"v", "3", ".", "0", ".", "0">>,
   <<"v", "2", ".", "2", ".", "2">>, <<"v", "2", ".", "2", ".", "1">>,
   <<"v", "2", ".", "2", ".", "0">>}
KindEnum == {<<"DataContract">>}
LogicalTypeEnum ==
  {<<"string">>, <<"date">>, <<"number">>, <<"integer">>, <<"object">>, <<"array">>, <<"boolean">>}
QualityDimensionEnum ==
  {<<"accuracy">>, <<"ac">>, <<"completeness">>, <<"cp">>, <<"conformity">>, <<"cf">>,
   <<"consistency">>, <<"cs">>, <<"coverage">>, <<"cv">>, <<"timeliness">>, <<"tm">>,
   <<"uniqueness">>, <<"uq">>}
ServerTypeEnum ==
  {<<"api">>, <<"athena">>, <<"azure">>, <<"bigquery">>, <<"clickhouse">>, <<"databricks">>,
   <<"denodo">>, <<"dremio">>, <<"duckdb">>, <<"glue">>, <<"cloudsql">>, <<"db2">>,
   <<"informix">>, <<"kafka">>, <<"kinesis">>, <<"local">>, <<"mysql">>, <<"oracle">>,
   <<"postgresql">>, <<"postgres">>, <<"presto">>, <<"pubsub">>, <<"redshift">>, <<"s3">>,
   <<"sftp">>, <<"snowflake">>, <<"sqlserver">>, <<"synapse">>, <<"trino">>, <<"vertica">>,
   <<"custom">>}
InEnum(v, enum) == v.k = "str" /\ v.s \in enum
IsApiVersion(v) == InEnum(v, ApiVersionEnum)
IsKind(v) == InEnum(v, KindEnum)
IsServerType(v) == InEnum(v, ServerTypeEnum)
OptLogicalType(v) == v.k = "none" \/ InEnum(v, LogicalTypeEnum)
OptDimension(v) == v.k = "none" \/ InEnum(v, QualityDimensionEnum)

CustomProperty(v) == v.k = "dict" /\ Req(v.d, "property", IsStr) /\ Req(v.d, "value", IsAny)
OptCustomProperties(v) == OptListOf(v, CustomProperty)
AuthoritativeDefinition(v) == v.k = "dict" /\ Req(v.d, "url", IsUrl) /\ Req(v.d, "type", IsStr)
OptAuthoritativeDefinitions(v) == OptListOf(v, AuthoritativeDefinition)

LogicalTypeOptions(v) ==
  /\ v.k = "dict"
  /\ \A key \in {"format", "pattern"} : Opt(v.d, key, OptStr)
  /\ \A key \in {"minLength", "maxLength", "minItems", "maxItems", "minProperties", "maxProperties"} :
       Opt(v.d, key, OptInt)
  /\ \A key \in {"minimum", "maximum", "multipleOf"} : Opt(v.d, key, OptNumber)
  /\ \A key \in {"exclusiveMinimum", "exclusiveMaximum", "uniqueItems"} : Opt(v.d, key, OptBool)
  /\ Opt(v.d, "required", OptStrList)
OptLogicalTypeOptions(v) == v.k = "none" \/ LogicalTypeOptions(v)

DataQuality(v) ==
  /\ v.k = "dict"
  /\ \A key \in {"name", "description", "type", "severity", "businessImpact", "rule", "unit",
                 "query", "engine", "implementation", "method", "schedule", "scheduler"} :
       Opt(v.d, key, OptStr)
  /\ Opt(v.d, "dimension", OptDimension)
  /\ Opt(v.d, "validValues", OptAnyList)
  /\ \A key \in {"mustBe", "mustNotBe", "mustBeGreaterThan", "mustBeGreaterOrEqualTo",
                 "mustBeLessThan", "mustBeLessOrEqualTo"} : Opt(v.d, key, OptNumber)
  /\ \A key \in {"mustBeBetween", "mustNotBeBetween"} : Opt(v.d, key, OptNumberList)
  /\ Opt(v.d, "tags", OptStrList)
  /\ Opt(v.d, "customProperties", OptCustomProperties)
  /\ Opt(v.d, "authoritativeDefinitions", OptAuthoritativeDefinitions)
OptQuality(v) == OptListOf(v, DataQuality)

\* primaryKey requires primaryKeyPosition: the fields after coercion, with
\* their defaults False and -1
\* variant: position 0 is refused as well
validate_primary_key_position_strict(d) ==
  LET primaryKey == Get(d, "primaryKey", B(FALSE))
      primaryKeyPosition == Get(d, "primaryKeyPosition", I(-1))
  IN ~(/\ primaryKey.k # "none" /\ BoolValue(primaryKey)
       /\ (primaryKeyPosition.k = "none" \/ IntValue(primaryKeyPosition) <= 0))
validate_primary_key_position(d) ==
  LET primaryKey == Get(d, "primaryKey", B(FALSE))
      primaryKeyPosition == Get(d, "primaryKeyPosition", I(-1))
  IN ~(/\ primaryKey.k # "none" /\ BoolValue(primaryKey)
       /\ (primaryKeyPosition.k = "none" \/ IntValue(primaryKeyPosition) < 0))

OptItems(v) == v.k \in {"none", "dict"}
SchemaProperty(v) ==
  /\ v.k = "dict"
  /\ Req(v.d, "name", IsStr)
  /\ Opt(v.d, "logicalType", OptLogicalType)
  /\ Opt(v.d, "logicalTypeOptions", OptLogicalTypeOptions)
  /\ \A key \in {"physicalType", "physicalName", "description", "businessName", "classification",
                 "encryptedName", "transformLogic", "transformDescription"} : Opt(v.d, key, OptStr)
  /\ \A key \in {"required", "unique", "primaryKey", "partitioned", "criticalDataElement"} :
       Opt(v.d, key, OptBool)
  /\ \A key \in {"primaryKeyPosition", "partitionKeyPosition"} : Opt(v.d, key, OptInt)
  /\ \A key \in {"transformSourceObjects", "tags"} : Opt(v.d, key, OptStrList)
  /\ Opt(v.d, "items", OptItems)
  /\ Opt(v.d, "examples", OptAnyList)
  /\ Opt(v.d, "customProperties", OptCustomProperties)
  /\ Opt(v.d, "quality", OptQuality)
  /\ Opt(v.d, "authoritativeDefinitions", OptAuthoritativeDefinitions)
  /\ validate_primary_key_position(v.d)
OptProperties(v) == OptListOf(v, SchemaProperty)

SchemaObject(v) ==
  /\ v.k = "dict"
  /\ Req(v.d, "name", IsStr)
  /\ \A key \in {"logicalType", "physicalName", "physicalType", "description", "businessName",
                 "dataGranularityDescription"} : Opt(v.d, key, OptStr)
  /\ Opt(v.d, "properties", OptProperties)
  /\ Opt(v.d, "tags", OptStrList)
  /\ Opt(v.d, "customProperties", OptCustomProperties)
  /\ Opt(v.d, "quality", OptQuality)
  /\ Opt(v.d, "authoritativeDefinitions", OptAuthoritativeDefinitions)

Role(v) ==
  /\ v.k = "dict"
  /\ Req(v.d, "role", IsStr)
  /\ \A key \in {"description", "access", "firstLevelApprovers", "secondLevelApprovers"} :
       Opt(v.d, key, OptStr)
  /\ Opt(v.d, "customProperties", OptCustomProperties)
OptRoles(v) == OptListOf(v, Role)

Team(v) ==
  /\ v.k = "dict"
  /\ \A key \in {"username", "name", "description", "role", "dateIn", "dateOut", "replacedByUsername"} :
       Opt(v.d, key, OptStr)

OptUrl(v) == v.k = "none" \/ IsUrl(v)
SupportItem(v) ==
  /\ v.k = "dict"
  /\ Req(v.d, "channel", IsStr)
  /\ Req(v.d, "url", IsUrl)
  /\ \A key \in {"description", "tool", "scope"} : Opt(v.d, key, OptStr)
  /\ Opt(v.d, "invitationUrl", OptUrl)

Pricing(v) ==
  /\ v.k = "dict"
  /\ Opt(v.d, "priceAmount", OptNumber)
  /\ \A key \in {"priceCurrency", "priceUnit"} : Opt(v.d, key, OptStr)
OptPricing(v) == v.k = "none" \/ Pricing(v)

Server(v) ==
  /\ v.k = "dict"
  /\ Req(v.d, "server", IsStr)
  /\ Req(v.d, "type", IsServerType)
  /\ \A key \in {"description", "environment", "location", "host", "database", "schema",
                 "project", "catalog", "format"} : Opt(v.d, key, OptStr)
  /\ Opt(v.d, "port", OptInt)
  /\ Opt(v.d, "roles", OptRoles)
  /\ Opt(v.d, "customProperties", OptCustomProperties)

Description(v) ==
  /\ v.k = "dict"
  /\ \A key \in {"usage", "purpose", "limitations"} : Opt(v.d, key, OptStr)
  /\ Opt(v.d, "authoritativeDefinitions", OptAuthoritativeDefinitions)
  /\ Opt(v.d, "customProperties", OptCustomProperties)
OptDescription(v) == v.k = "none" \/ Description(v)

SlaScalar(v) == v.k \in {"str", "int", "float", "bool"}
OptSlaScalar(v) == v.k = "none" \/ SlaScalar(v)
ServiceLevelAgreementProperty(v) ==
  /\ v.k = "dict"
  /\ Req(v.d, "property", IsStr)
  /\ Req(v.d, "value", OptSlaScalar)
  /\ Opt(v.d, "valueExt", OptSlaScalar)
  /\ \A key \in {"unit", "element", "driver"} : Opt(v.d, key, OptStr)

OptServers(v) == OptListOf(v, Server)
OptSchema(v) == OptListOf(v, SchemaObject)
OptSupport(v) == OptListOf(v, SupportItem)
OptTeam(v) == OptListOf(v, Team)
OptSlaProperties(v) == OptListOf(v, ServiceLevelAgreementProperty)

\* validate_non_empty_string: not v or not v.strip()
NonEmptyString(v) == IsStr(v) /\ v.s # <<>> /\ Strip(v.s) # <<>>

ContractFields ==
  {"version", "kind", "apiVersion", "id", "status", "name", "tenant", "tags", "servers",
   "dataProduct", "description", "domain", "schema", "support", "price", "team", "roles",
   "slaDefaultElement", "slaProperties", "authoritativeDefinitions", "customProperties",
   "contractCreatedTs"}

\* ODCSDataContract(**data) raises no ValidationError
ODCSDataContract(data) ==
  /\ DOMAIN data \subseteq ContractFields
  /\ Req(data, "version", NonEmptyString)
  /\ Opt(data, "kind", IsKind)
  /\ Req(data, "apiVersion", IsApiVersion)
  /\ Req(data, "id", NonEmptyString)
  /\ Req(data, "status", NonEmptyString)
  /\ \A key \in {"name", "tenant", "dataProduct", "domain", "slaDefaultElement"} : Opt(data, key, OptStr)
  /\ Opt(data, "tags", OptStrList)
  /\ Opt(data, "servers", OptServers)
  /\ Opt(data, "description", OptDescription)
  /\ Opt(data, "schema", OptSchema)
  /\ Opt(data, "support", OptSupport)
  /\ Opt(data, "price", OptPricing)
  /\ Opt(data, "team", OptTeam)
  /\ Opt(data, "roles", OptRoles)
  /\ Opt(data, "slaProperties", OptSlaProperties)
  /\ Opt(data, "authoritativeDefinitions", OptAuthoritativeDefinitions)
  /\ Opt(data, "customProperties", OptCustomProperties)
  /\ Opt(data, "contractCreatedTs", OptDateTime)

\* variant: the error of the contract model is not caught
validate_odcs_data_uncaught(data) ==
  IF ODCSDataContract(data) THEN B(TRUE) ELSE Raised("ValidationError")
\* excel_parser.validate_odcs_data: the contract model is built inside
\* try/except Exception; True when it is built, False when it raises
validate_odcs_data(data) ==
  IF ODCSDataContract(data) THEN B(TRUE) ELSE B(FALSE)

(***************************************************************************)
(* The input documents of the round trip                                   *)
(***************************************************************************)
\* the most schema objects a document has
MaxObjects == 2

VersionTexts == {<<"1", ".", "0", ".", "0">>, <<"1", ".", "0">>, <<"2">>}
KindTexts == {<<"DataContract">>, <<"Other">>}
ApiVersionTexts == {<<"v", "3", ".", "0", ".", "2">>, <<"3", ".", "1">>}
IdTexts == {<<"c", "1">>, <<"4", "2">>}
StatusTexts == {<<"active">>, <<"t", "r", "u", "e">>, <<" ", "n", "e", "w">>}

pk == [name |-> W("pk"), logicalType |-> W("integer"), primaryKey |-> B(TRUE), primaryKeyPosition |-> I(1)]
\* the properties an object of an input document may have
PropertyChoices ==
  << << >>,
     << D(pk) >>,
     << D([name |-> W("id"), primaryKey |-> B(TRUE), primaryKeyPosition |-> I(0)]) >>,
     << D([name |-> W("id"), logicalType |-> W("string"), required |-> B(TRUE)]), D(pk) >>,
     << D([name |-> W("id"), primaryKey |-> B(TRUE), primaryKeyPosition |-> I(-1)]) >>,
     << D([name |-> W("id"), primaryKey |-> B(TRUE)]) >>,
     << D([name |-> W("id"), primaryKey |-> B(TRUE), primaryKeyPosition |-> None]) >>,
     << D([name |-> W("id"), primaryKey |-> B(FALSE), primaryKeyPosition |-> I(-1)]) >>,
     << D([name |-> W("id")]), D([name |-> W("id"), logicalType |-> W("string")]) >> >>
ObjectNames == <<W("t1"), W("t2"), W("t3"), W("t4")>>
\* the schemas of at most MaxObjects objects, named in order
Schemas ==
  UNION {{L([i \in 1..n |-> D([name |-> ObjectNames[i], properties |-> L(PropertyChoices[choice[i]])])]) :
            choice \in [1..n -> 1..Len(PropertyChoices)]} : n \in 1..MaxObjects}

MinimalContract ==
  [version |-> S(<<"1", ".", "0", ".", "0">>), kind |-> W("DataContract"),
   apiVersion |-> S(<<"v", "3", ".", "0", ".", "2">>), id |-> S(<<"c", "1">>), status |-> W("active")]
RequiredFields == {"version", "kind", "apiVersion", "id", "status"}

\* every choice of the five root texts, with the one-object scenario schema
RootDocuments ==
  {[version |-> S(v), kind |-> S(kd), apiVersion |-> S(a), id |-> S(i), status |-> S(st),
    schema |-> L(<<D([name |-> W("t1"), properties |-> L(<<D(pk)>>)])>>)] :
     v \in VersionTexts, kd \in KindTexts, a \in ApiVersionTexts, i \in IdTexts, st \in StatusTexts}
\* the minimal contract without one of its root fields, or with it blank
PartialDocuments ==
  {Restrict(MinimalContract, RequiredFields \ {f}) : f \in RequiredFields}
  \cup {Put(MinimalContract, f, S(<<" ">>)) : f \in RequiredFields}
\* the minimal contract with each schema
SchemaDocuments == {Put(MinimalContract, "schema", s) : s \in Schemas}
\* a contract with every section filled
FullDocument ==
  [version |-> S(<<"1", ".", "0", ".", "0">>), kind |-> W("DataContract"),
   apiVersion |-> S(<<"v", "3", ".", "0", ".", "2">>), id |-> S(<<"c", "1">>), status |-> W("active"),
   name |-> W("orders"), domain |-> W("sales"),
   tags |-> L(<<W("gold"), W("core")>>),
   description |-> D([usage |-> W("reporting"), purpose |-> W("analytics")]),
   servers |-> L(<<D([server |-> W("main"), type |-> W("postgres"), host |-> W("db"), port |-> I(5432)])>>),
   schema |-> L(<<D([name |-> W("t1"), physicalName |-> W("tbl"),
                     properties |-> L(<<D([name |-> W("id"), logicalType |-> W("string"),
                                           logicalTypeOptions |-> D([maxLength |-> I(5)]),
                                           quality |-> L(<<D([name |-> W("filled"), dimension |-> W("completeness")])>>)])>>),
                     quality |-> L(<<D([name |-> W("fresh"), dimension |-> W("timeliness")])>>)])>>),
   support |-> L(<<D([channel |-> W("chat"), url |-> S(<<"https", "://", "help">>)])>>),
   price |-> D([priceAmount |-> I(5), priceCurrency |-> W("USD"), priceUnit |-> W("month")]),
   team |-> L(<<D([username |-> W("ann"), role |-> W("owner")])>>),
   roles |-> L(<<D([role |-> W("reader"), access |-> W("read")])>>),
   slaProperties |-> L(<<D([property |-> W("latency"), value |-> I(4), unit |-> W("d")])>>),
   authoritativeDefinitions |-> L(<<D([url |-> S(<<"https", "://", "docs">>), type |-> W("policy")])>>),
   customProperties |-> L(<<D([property |-> W("tier"), value |-> W("one")])>>)]
\* the most elements of a mustBeBetween or mustNotBeBetween list
MaxBetween == 3
\* the minimal contract with one object-level rule whose between list has
\* 0..MaxBetween elements
BetweenDocuments ==
  {Put(MinimalContract, "schema",
       L(<<D([name |-> W("t1"),
              quality |-> L(<<D(Put([name |-> W("range")], key, L([i \in 1..n |-> I(i)])))>>)])>>)) :
     key \in {"mustBeBetween", "mustNotBeBetween"}, n \in 0..MaxBetween}
\* the keys the projection adds to a record before it writes the row
ContextKeys == {"object_name", "property_name", "level"}
Places == {"property", "options", "object rule", "property rule"}
\* the minimal contract with one object, one property with options and a
\* rule, and one object rule; one of the four records has a key of its own
\* that is named like a context key
ShadowDocuments ==
  {LET Own(place, record) == IF place = at THEN Put(record, key, W("other")) ELSE record
   IN Put(MinimalContract, "schema",
        L(<<D([name |-> W("t1"),
               properties |->
                 L(<<D(Own("property",
                           [name |-> W("id"),
                            logicalTypeOptions |-> D(Own("options", [maxLength |-> I(5)])),
                            quality |-> L(<<D(Own("property rule", [name |-> W("filled")]))>>)]))>>),
               quality |-> L(<<D(Own("object rule", [name |-> W("fresh")]))>>)])>>)) :
     at \in Places, key \in ContextKeys}
\* a contract with every section present and empty
EmptySectionsDocument ==
  Update(MinimalContract,
         [tags |-> L(<<>>), description |-> D(EmptyDict), servers |-> L(<<>>), schema |-> L(<<>>),
          support |-> L(<<>>), price |-> D(EmptyDict), team |-> L(<<>>), roles |-> L(<<>>),
          slaProperties |-> L(<<>>), authoritativeDefinitions |-> L(<<>>),
          customProperties |-> L(<<>>)])
\* a rule with a name, one with a description only, one with neither
NamedRule == D([name |-> W("fresh"), dimension |-> W("timeliness")])
DescribedRule == D([description |-> W("no gaps")])
BareRule == D([rule |-> W("nullCheck"), mustBe |-> I(0)])
RuleListChoices ==
  << <<>>, <<NamedRule>>, <<BareRule>>, <<NamedRule, BareRule>>, <<DescribedRule, NamedRule>> >>
\* the minimal contract with one object and one property, each with one of
\* the rule lists
RuleDocuments ==
  {Put(MinimalContract, "schema",
       L(<<D([name |-> W("t1"),
              properties |-> L(<<D([name |-> W("id"), quality |-> L(RuleListChoices[p])])>>),
              quality |-> L(RuleListChoices[o])])>>)) :
     o \in 1..Len(RuleListChoices), p \in 1..Len(RuleListChoices)}
\* logical type options of every kind of value
OptionChoices ==
  << [maxLength |-> I(5)],
     [minLength |-> I(0), maxLength |-> I(5), format |-> W("date")],
     [minimum |-> I(1), maximum |-> F("fin", FALSE, 2, <<"5">>), exclusiveMinimum |-> B(FALSE),
      uniqueItems |-> B(TRUE)],
     [minItems |-> I(1), maxItems |-> I(3), required |-> L(<<W("a"), W("b")>>)],
     [pattern |-> S(<<"a", "+">>)],
     [pattern |-> S(<<"a", " ">>)] >>
\* the minimal contract with one object whose first property has the
\* options and whose second has none
OptionDocuments ==
  {Put(MinimalContract, "schema",
       L(<<D([name |-> W("t1"),
              properties |-> L(<<D([name |-> W("id"), logicalTypeOptions |-> D(OptionChoices[c])]),
                                 D([name |-> second])>>)])>>)) :
     c \in 1..Len(OptionChoices), second \in {W("key"), W("id")}}
\* the scalar fields of a server record
ServerFields ==
  {"server", "type", "description", "environment", "location", "host", "port", "database",
   "schema", "project", "catalog", "format"}
\* the minimal contract with one server that has one more field set
ServerDocuments ==
  {Put(MinimalContract, "servers",
       L(<<D(Put([server |-> W("main"), type |-> W("postgres")], field,
                 IF field = "port" THEN I(5432) ELSE W("x")))>>)) :
     field \in ServerFields \ {"server", "type"}}
\* the list-valued fields of a schema object and of a property
ListFields == {"tags", "examples", "transformSourceObjects"}
\* the minimal contract with one object and one property; the object has
\* tags, or the property has one of the list fields
ListDocuments ==
  {Put(MinimalContract, "schema",
       L(<<D([name |-> W("t1"), tags |-> L(<<W("gold"), W("core")>>),
              properties |-> L(<<D([name |-> W("id")])>>)])>>))}
  \cup {Put(MinimalContract, "schema",
            L(<<D([name |-> W("t1"),
                   properties |-> L(<<D(Put([name |-> W("id")], field, L(<<W("b"), W("a")>>)))>>)])>>)) :
          field \in ListFields}
Documents ==
  RootDocuments \cup PartialDocuments \cup SchemaDocuments \cup BetweenDocuments
  \cup ShadowDocuments \cup RuleDocuments \cup OptionDocuments \cup ServerDocuments
  \cup ListDocuments
  \cup {MinimalContract, FullDocument, EmptySectionsDocument}

(***************************************************************************)
(* State                                                                   *)
(***************************************************************************)
VARIABLES
  data,         \* the document handed to generate_from_dict
  contract,     \* whether generate_from_dict's validation accepted it
  workbook,     \* the sheets of the workbook file
  sheetnames,   \* the titles of its sheets, in the order of the file
  worksheets,   \* ExcelToODCSParser.worksheets
  odcs_data,    \* the document _parse_odcs_data is building
  pc,           \* the step of the conversion that runs next
  result,       \* what parse_from_file returned or raised
  validate,     \* the --validate option of the command
  output,       \* the document written to the output file
  is_valid,     \* what validate_odcs_data returned
  validations,  \* how many times the contract model was run on parsed data
  exit,         \* how the command ended
  calls         \* the calls that run at the same time on one instance, with their locals

vars == <<data, contract, workbook, sheetnames, worksheets, odcs_data, pc, result, validate, output,
          is_valid, validations, exit, calls>>

NotYet == [k |-> "notyet"]

Init ==
  /\ data \in Documents
  /\ validate \in BOOLEAN
  /\ contract = NotYet
  /\ workbook = EmptyDict
  /\ sheetnames = <<>>
  /\ worksheets = EmptyDict
  /\ odcs_data = EmptyDict
  /\ pc = "generate"
  /\ result = NotYet
  /\ output = NotYet
  /\ is_valid = NotYet
  /\ validations = 0
  /\ exit = NotYet
  /\ calls = <<>>

(***************************************************************************)
(* generator.generate_from_dict                                            *)
(***************************************************************************)
\* validation failure is logged; the workbook is made from the raw data
generate_from_dict ==
  /\ pc = "generate"
  /\ contract' = B(ODCSDataContract(data))
  /\ IF CreateError(data) # "none"
     THEN /\ pc' = "failed"
          /\ result' = Raised(CreateError(data))
          /\ exit' = W("failed")
          /\ UNCHANGED <<workbook, sheetnames>>
     ELSE /\ workbook' = _create_workbook(data)
          /\ sheetnames' = CreatedSheets(data)
          /\ pc' = "load"
          /\ UNCHANGED <<result, exit>>
  /\ UNCHANGED <<calls, data, worksheets, odcs_data, validate, output, is_valid, validations>>

(***************************************************************************)
(* excel_parser.parse_from_file, one action per step of _parse_odcs_data   *)
(***************************************************************************)
LoadWorksheets ==
  /\ pc = "load"
  /\ worksheets' = _load_all_worksheets(workbook)
  /\ odcs_data' = EmptyDict
  /\ pc' = "basic"
  /\ UNCHANGED <<calls, data, contract, workbook, sheetnames, result, validate, output, is_valid, validations, exit>>

\* odcs_data.update(section); an exception is caught by parse_from_file and
\* raised again as ValueError, which the command reports as a failure
Step(at, section, next) ==
  /\ pc = at
  /\ IF AnyRaised(D(section))
     THEN /\ pc' = "failed"
          /\ result' = Raised("ValueError")
          /\ exit' = W("failed")
          /\ UNCHANGED odcs_data
     ELSE /\ pc' = next
          /\ odcs_data' = Update(odcs_data, section)
          /\ UNCHANGED <<result, exit>>
  /\ UNCHANGED <<calls, data, contract, workbook, sheetnames, worksheets, validate, output, is_valid, validations>>

\* an _enhance_ step: the document is changed in place, or the call raises
Enhance(at, enhanced, next) ==
  /\ pc = at
  /\ IF IsRaised(enhanced)
     THEN /\ pc' = "failed"
          /\ result' = Raised("ValueError")
          /\ exit' = W("failed")
          /\ UNCHANGED odcs_data
     ELSE /\ pc' = next
          /\ odcs_data' = enhanced.d
          /\ UNCHANGED <<result, exit>>
  /\ UNCHANGED <<calls, data, contract, workbook, sheetnames, worksheets, validate, output, is_valid, validations>>

ParseBasicInformation == Step("basic", _parse_basic_information(worksheets), "tags")
ParseTags == Step("tags", _parse_tags(worksheets), "description")
ParseDescription == Step("description", _parse_description(worksheets), "servers")
\* variant: the remaining flat tables are read before the schema
ParseServers_flat_first == Step("servers", _parse_servers(worksheets), "support")
ParseServers == Step("servers", _parse_servers(worksheets), "schema")
ParseSchema == Step("schema", _parse_schema(worksheets), "properties")
EnhanceProperties == Enhance("properties", _enhance_schema_with_properties(worksheets, odcs_data), "options")
EnhanceOptions == Enhance("options", _enhance_schema_with_logical_type_options(worksheets, odcs_data), "quality")
EnhanceQuality == Enhance("quality", _enhance_schema_with_quality_rules(worksheets, odcs_data), "support")
ParseSupport == Step("support", _parse_support(worksheets), "pricing")
ParsePricing == Step("pricing", _parse_pricing(worksheets), "team")
ParseTeam == Step("team", _parse_team(worksheets), "roles")
ParseRoles == Step("roles", _parse_roles(worksheets), "sla")
ParseSlaProperties == Step("sla", _parse_sla_properties(worksheets), "definitions")
ParseAuthoritativeDefinitions == Step("definitions", _parse_authoritative_definitions(worksheets), "custom")
ParseCustomProperties == Step("custom", _parse_custom_properties(worksheets), "clean")

\* odcs_data = self._clean_data(odcs_data); return odcs_data
CleanAndReturn ==
  /\ pc = "clean"
  /\ odcs_data' = _clean_data(odcs_data)
  /\ result' = D(_clean_data(odcs_data))
  /\ pc' = "save"
  /\ UNCHANGED <<calls, data, contract, workbook, sheetnames, worksheets, validate, output, is_valid, validations, exit>>

(***************************************************************************)
(* cli._excel_to_odcs after the parse                                      *)
(***************************************************************************)
\* the document is written before any validation
SaveOutput ==
  /\ pc = "save"
  /\ output' = result
  /\ pc' = IF validate THEN "validate" ELSE "report"
  /\ UNCHANGED <<calls, data, contract, workbook, sheetnames, worksheets, odcs_data, result, validate, is_valid, validations, exit>>

ValidateOutput ==
  /\ pc = "validate"
  /\ is_valid' = validate_odcs_data(result.d)
  /\ validations' = validations + 1
  /\ pc' = "report"
  /\ UNCHANGED <<calls, data, contract, workbook, sheetnames, worksheets, odcs_data, result, validate, output, exit>>

\* variant: a failed validation fails the command
ExitStatus_gated(valid) == IF valid = B(FALSE) THEN W("failed") ELSE W("ok")
\* how the command ends once the document is saved: a failed validation
\* prints a warning
ExitStatus(valid) == W("ok")
Report ==
  /\ pc = "report"
  /\ exit' = ExitStatus(is_valid)
  /\ pc' = "done"
  /\ UNCHANGED <<calls, data, contract, workbook, sheetnames, worksheets, odcs_data, result, validate, output, is_valid, validations>>

Parse ==
  \/ LoadWorksheets
  \/ ParseBasicInformation
  \/ ParseTags
  \/ ParseDescription
  \/ ParseServers
  \/ ParseSchema
  \/ EnhanceProperties
  \/ EnhanceOptions
  \/ EnhanceQuality
  \/ ParseSupport
  \/ ParsePricing
  \/ ParseTeam
  \/ ParseRoles
  \/ ParseSlaProperties
  \/ ParseAuthoritativeDefinitions
  \/ ParseCustomProperties
  \/ CleanAndReturn
  \/ SaveOutput
  \/ ValidateOutput
  \/ Report

Next == generate_from_dict \/ Parse

Spec == Init /\ [][Next]_vars

(***************************************************************************)
(* The round trip: root fields, validity, the primary key rule             *)
(***************************************************************************)
\* the conversion has returned a document
Returned == result.k = "dict"
\* version, kind, apiVersion, id and status of the input are non-empty strings
RootFieldsAreText == \A f \in RequiredFields : f \in DOMAIN data /\ IsStr(data[f]) /\ data[f].s # <<>>

\* C1: when the five root fields of the input document are non-empty
\* strings, the document the round trip returns has the same five fields,
\* each equal in value and in type to the input's.
C1_RootFieldsPreserved ==
  (Returned /\ RootFieldsAreText)
    => \A f \in RequiredFields : f \in DOMAIN result.d /\ result.d[f] = data[f]

\* C3: when the input document passes validation, the document the round
\* trip returns passes validation too, and the one-object scenario with the
\* single primary key property pk at position 1 comes back valid with exactly
\* that one property.
PkScenario ==
  /\ "schema" \in DOMAIN data
  /\ data["schema"] = L(<<D([name |-> W("t1"), properties |-> L(<<D(pk)>>)])>>)
  /\ \A f \in RequiredFields : f \in DOMAIN data /\ data[f] = MinimalContract[f]
OnePropertyPk(doc) ==
  /\ "schema" \in DOMAIN doc
  /\ Len(doc["schema"].l) = 1
  /\ "properties" \in DOMAIN doc["schema"].l[1].d
  /\ Len(doc["schema"].l[1].d["properties"].l) = 1
  /\ doc["schema"].l[1].d["properties"].l[1].d["name"] = W("pk")
C3_RoundTripKeepsValidity ==
  /\ (Returned /\ contract = B(TRUE)) => validate_odcs_data(result.d) = B(TRUE)
  /\ (Returned /\ PkScenario) => (validate_odcs_data(result.d) = B(TRUE) /\ OnePropertyPk(result.d))

\* every property of every object of a document
PropertiesOf(doc) ==
  IF "schema" \notin DOMAIN doc THEN {}
  ELSE UNION {{doc["schema"].l[i].d["properties"].l[j].d :
                 j \in 1..Len(Get(doc["schema"].l[i].d, "properties", L(<<>>)).l)} :
              i \in 1..Len(doc["schema"].l)}
IsPrimaryKey(p) == "primaryKey" \in DOMAIN p /\ p["primaryKey"] = B(TRUE)
PositionMissing(p) ==
  \/ "primaryKeyPosition" \notin DOMAIN p
  \/ (p["primaryKeyPosition"].k = "int" /\ p["primaryKeyPosition"].n < 0)
PositionGiven(p) ==
  /\ "primaryKeyPosition" \in DOMAIN p
  /\ p["primaryKeyPosition"].k = "int" /\ p["primaryKeyPosition"].n >= 0
\* the document without any primary key setting
WithoutKeys(doc) ==
  IF "schema" \notin DOMAIN doc THEN doc
  ELSE Put(doc, "schema",
         L([i \in 1..Len(doc["schema"].l) |->
              LET obj == doc["schema"].l[i].d
              IN IF "properties" \notin DOMAIN obj THEN D(obj)
                 ELSE D(Put(obj, "properties",
                     L([j \in 1..Len(obj["properties"].l) |->
                          D(Restrict(obj["properties"].l[j].d,
                                     DOMAIN obj["properties"].l[j].d \ {"primaryKey", "primaryKeyPosition"}))])))]))
OtherwiseValid == ODCSDataContract(WithoutKeys(data))

\* C8: no step of the reconstruction runs the contract model; the document
\* is returned and written whether or not it is valid, and a validation the
\* command runs afterwards leaves the written document in place and the
\* command successful.
C8_ValidationNeverGatesOutput ==
  /\ (pc \notin {"report", "done"}) => (validations = 0 /\ is_valid = NotYet)
  /\ (pc \in {"validate", "report", "done"}) => (Returned /\ output = result)
  /\ (pc = "done") => (exit = W("ok") /\ output = result)
\* an invalid document (a primary key at position -1) was written, the
\* validation failed, and the command ended well
C8_Witness ==
  /\ pc = "done" /\ is_valid = B(FALSE) /\ exit = W("ok") /\ output = result
  /\ \E p \in PropertiesOf(result.d) : IsPrimaryKey(p) /\ p["primaryKeyPosition"] = I(-1)

\* C9: an otherwise valid document is rejected when some property has
\* primaryKey true and primaryKeyPosition absent or negative, and accepted
\* when every property with primaryKey true has a primaryKeyPosition >= 0.
C9_PrimaryKeyNeedsPosition ==
  (contract # NotYet /\ OtherwiseValid) =>
    /\ (\E p \in PropertiesOf(data) : IsPrimaryKey(p) /\ PositionMissing(p)) => contract = B(FALSE)
    /\ (\A p \in PropertiesOf(data) : IsPrimaryKey(p) => PositionGiven(p)) => contract = B(TRUE)
\* a document with one key at position 0 and one key without position
C9_Witness ==
  /\ contract = B(FALSE) /\ OtherwiseValid
  /\ \E p \in PropertiesOf(data) : IsPrimaryKey(p) /\ "primaryKeyPosition" \notin DOMAIN p
  /\ \E p \in PropertiesOf(data) : IsPrimaryKey(p) /\ PositionGiven(p) /\ p["primaryKeyPosition"].n = 0
\* C10: a document that lacks one of version, kind, apiVersion, id and
\* status is rejected by validation.
C10_RequiredRootFields ==
  (contract # NotYet /\ \E f \in RequiredFields : f \notin DOMAIN data) => contract = B(FALSE)

\* some object of the document lists two properties of one name
HasDuplicateProperty(doc) ==
  /\ "schema" \in DOMAIN doc
  /\ \E i \in 1..Len(doc["schema"].l) :
       LET properties == Get(doc["schema"].l[i].d, "properties", L(<<>>)).l
       IN \E j1, j2 \in 1..Len(properties) :
            j1 # j2 /\ properties[j1].d["name"] = properties[j2].d["name"]
\* C11: a document in which an object lists two properties of the same
\* name, an (objectName, propertyName) pair occurring twice, is rejected by
\* validation.
C11_DuplicatePropertyRejected ==
  (contract # NotYet /\ HasDuplicateProperty(data)) => contract = B(FALSE)

\* the quality rules of a document, of its objects and of their properties
QualityOf(doc) ==
  IF "schema" \notin DOMAIN doc THEN {}
  ELSE UNION {LET obj == doc["schema"].l[i].d
                  quality == Get(obj, "quality", L(<<>>)).l
                  properties == Get(obj, "properties", L(<<>>)).l
              IN {quality[q].d : q \in 1..Len(quality)}
                 \cup UNION {{Get(properties[j].d, "quality", L(<<>>)).l[q].d :
                                q \in 1..Len(Get(properties[j].d, "quality", L(<<>>)).l)} :
                             j \in 1..Len(properties)} :
              i \in 1..Len(doc["schema"].l)}
\* a between list that is present with a number of elements other than two
BadBetween(rule) ==
  \E key \in {"mustBeBetween", "mustNotBeBetween"} :
    key \in DOMAIN rule /\ rule[key].k = "list" /\ Len(rule[key].l) # 2
\* C12: a document with a quality rule whose mustBeBetween or
\* mustNotBeBetween list is present with a number of elements other than
\* two is rejected by validation.
C12_BetweenHasTwoElements ==
  (contract # NotYet /\ \E rule \in QualityOf(data) : BadBetween(rule)) => contract = B(FALSE)

(***************************************************************************)
(* Validation alone: validate_odcs_data called on any dictionary           *)
(***************************************************************************)
\* dictionaries that break the shape of the contract rather than a rule
MalformedDocuments ==
  {EmptyDict,
   Put(MinimalContract, "extra", I(1)),
   Put(MinimalContract, "version", I(1)),
   Put(MinimalContract, "kind", None),
   Put(MinimalContract, "tags", I(3)),
   Put(MinimalContract, "schema", W("t1")),
   Put(MinimalContract, "schema", L(<<W("t1")>>)),
   Put(MinimalContract, "schema", L(<<D([physicalName |-> W("tbl")])>>)),
   Put(MinimalContract, "schema", L(<<D([name |-> W("t1"), properties |-> L(<<D([name |-> I(1)])>>)])>>)),
   Put(MinimalContract, "servers", L(<<D([server |-> W("main"), type |-> W("abacus")])>>)),
   Put(MinimalContract, "price", L(<<>>))}
InitValidate ==
  /\ data = EmptyDict
  /\ result \in {D(doc) : doc \in Documents \cup MalformedDocuments}
  /\ output = result
  /\ validate = TRUE
  /\ contract = NotYet
  /\ workbook = EmptyDict
  /\ sheetnames = <<>>
  /\ worksheets = EmptyDict
  /\ odcs_data = EmptyDict
  /\ pc = "validate"
  /\ is_valid = NotYet
  /\ validations = 0
  /\ exit = NotYet
  /\ calls = <<>>
SpecValidate == InitValidate /\ [][ValidateOutput]_vars

\* C13: validate_odcs_data returns True or False for every dictionary,
\* whichever rule or shape the dictionary breaks; it never raises: True
\* exactly when the contract model accepts the dictionary.
C13_ValidateNeverRaises ==
  validations > 0 =>
    /\ is_valid \in {B(TRUE), B(FALSE)}
    /\ is_valid = B(TRUE) <=> ODCSDataContract(result.d)
\* False was returned for a document whose primary key has no position
C13_Witness ==
  /\ validations > 0 /\ is_valid = B(FALSE) /\ ~ODCSDataContract(result.d)
  /\ result.d \in SchemaDocuments
  /\ \E p \in PropertiesOf(result.d) : IsPrimaryKey(p) /\ "primaryKeyPosition" \notin DOMAIN p

(***************************************************************************)
(* Workbooks written by hand: the inputs of the reconstruction alone       *)
(***************************************************************************)
\* the most data rows of a hand-written Schema Properties or Quality Rules sheet
MaxRows == 2
\* the most tables left out of, or left in, a workbook
MaxMissing == 1

\* the sequences of 0..n elements of a set
RECURSIVE SeqsUpTo(_, _)
SeqsUpTo(set, n) ==
  IF n = 0 THEN {<<>>}
  ELSE SeqsUpTo(set, n - 1) \cup {Append(s, x) : s \in {q \in SeqsUpTo(set, n - 1) : Len(q) = n - 1}, x \in set}

SchemaRow(name, physical) == [c \in {"Object Name", "Physical Name"} |-> IF c = "Object Name" THEN name ELSE physical]
\* two named objects; a named object and a row whose Object Name is blank
SchemaSheets ==
  {Sheet(<<"Object Name", "Physical Name">>, <<SchemaRow(W("t1"), None), SchemaRow(W("t2"), W("tbl"))>>),
   Sheet(<<"Object Name", "Physical Name">>, <<SchemaRow(W("t1"), None), SchemaRow(None, W("tbl"))>>)}

PropertiesColumns == <<"Object Name", "Property Name", "Primary Key", "PK Position", "Note">>
PropertyRow(obj, prop, key, position) ==
  [c \in ColSet(PropertiesColumns) |->
     CASE c = "Object Name" -> obj [] c = "Property Name" -> prop [] c = "Primary Key" -> key
       [] c = "PK Position" -> position [] c = "Note" -> W("seen")]
PropertyRowChoices ==
  {PropertyRow(W("t1"), W("id"), B(TRUE), I(1)),
   PropertyRow(W("t2"), W("id"), None, S(<<"a", "b">>)),
   PropertyRow(W("ghost"), W("id"), None, None),
   PropertyRow(W("t1"), W("key"), B(TRUE), S(<<"i", "n", "f">>)),
   PropertyRow(W("t1"), None, None, None)}
\* a Schema sheet and a Schema Properties sheet of at most MaxRows rows
JoinWorkbooks ==
  {[n \in {"Schema", "Schema Properties"} |->
      IF n = "Schema" THEN schema ELSE Sheet(PropertiesColumns, rows)] :
     schema \in SchemaSheets, rows \in SeqsUpTo(PropertyRowChoices, MaxRows)}

RulesColumns == <<"Object Name", "Property Name", "Level", "Name">>
RuleRow(obj, prop, level, name) ==
  [c \in ColSet(RulesColumns) |->
     CASE c = "Object Name" -> obj [] c = "Property Name" -> prop [] c = "Level" -> level
       [] c = "Name" -> name]
RuleRowChoices ==
  {RuleRow(W("t1"), W("id"), W("property"), W("r1")),
   RuleRow(W("t1"), None, W("object"), W("r2")),
   RuleRow(W("t1"), None, W("property"), W("r3")),
   RuleRow(W("t2"), W("id"), None, W("r4")),
   RuleRow(W("t2"), W("zz"), W("property"), W("r5")),
   RuleRow(W("ghost"), W("id"), W("object"), W("r6"))}
\* the sheet with one of its columns left out
WithoutColumn(sheet, col) ==
  Sheet(SelectSeq(sheet.header, LAMBDA c : c # col),
        [i \in 1..Len(sheet.rows) |-> Restrict(sheet.rows[i], DOMAIN sheet.rows[i] \ {col})])
\* two objects with a property id each, and a Quality Rules sheet of 1..MaxRows
\* rows, with or without its Property Name column
RuleWorkbooks ==
  {[n \in {"Schema", "Schema Properties", "Quality Rules"} |->
      CASE n = "Schema" ->
             Sheet(<<"Object Name", "Physical Name">>, <<SchemaRow(W("t1"), None), SchemaRow(W("t2"), None)>>)
        [] n = "Schema Properties" ->
             Sheet(PropertiesColumns, <<PropertyRow(W("t1"), W("id"), None, None),
                                        PropertyRow(W("t2"), W("id"), None, None)>>)
        [] n = "Quality Rules" -> rules] :
     rules \in UNION {{Sheet(RulesColumns, rows), WithoutColumn(Sheet(RulesColumns, rows), "Property Name")} :
                        rows \in SeqsUpTo(RuleRowChoices, MaxRows) \ {<<>>}}}

\* the generated workbook of the full contract with at most MaxMissing of its
\* tables left out, or with at most MaxMissing of them left in
TableWorkbooks ==
  {Restrict(_create_workbook(FullDocument), present) :
     present \in {P \in SUBSET ColSet(SheetNames) :
                    \/ Cardinality(ColSet(SheetNames) \ P) <= MaxMissing
                    \/ Cardinality(P) <= MaxMissing}}
Workbooks == JoinWorkbooks \cup RuleWorkbooks \cup TableWorkbooks

\* the command run on a workbook that was written by hand
InitWorkbook ==
  /\ workbook \in Workbooks
  /\ sheetnames = SelectSeq(SheetNames, LAMBDA n : n \in DOMAIN workbook)
  /\ validate \in BOOLEAN
  /\ data = EmptyDict
  /\ contract = NotYet
  /\ worksheets = EmptyDict
  /\ odcs_data = EmptyDict
  /\ pc = "load"
  /\ result = NotYet
  /\ output = NotYet
  /\ is_valid = NotYet
  /\ validations = 0
  /\ exit = NotYet
  /\ calls = <<>>

SpecWorkbook == InitWorkbook /\ [][Parse]_vars

(***************************************************************************)
(* The reconstruction of hand-written workbooks: joins and failures        *)
(***************************************************************************)
\* the steps after _enhance_schema_with_properties has returned
PropertiesJoined ==
  pc \in {"options", "quality", "support", "pricing", "team", "roles", "sla", "definitions",
          "custom", "clean", "save", "validate", "report", "done"}
\* the steps after _enhance_schema_with_quality_rules has returned
RulesJoined == PropertiesJoined /\ pc \notin {"options", "quality"}
SchemaOf(doc) == Get(doc, "schema", L(<<>>)).l
DistinctNames(schema) ==
  /\ \A i \in 1..Len(schema) : "name" \in DOMAIN schema[i].d
  /\ \A i, j \in 1..Len(schema) : schema[i].d["name"] = schema[j].d["name"] => i = j
RowsOf(sheet_name) == IF HasSheet(worksheets, sheet_name) THEN worksheets[sheet_name].rows ELSE <<>>
RowText(row, col) == S(Str(CellOr(row, col, Blank)))
\* the values of one key in a list of records
Column(records, key) == [j \in 1..Len(records) |-> records[j].d[key]]
PropertiesIn(obj) == DGet(obj, "properties", L(<<>>)).l
\* the Property Names of the rows that name an object, in row order
PropertyNamesFor(obj_name) ==
  LET rows == SelectSeq(RowsOf("Schema Properties"),
                        LAMBDA row : RowText(row, "Object Name") = obj_name /\ ~IsNa(Cell(row, "Property Name")))
  IN [j \in 1..Len(rows) |-> RowText(rows[j], "Property Name")]

\* C2: when the schema objects have distinct names, the properties under
\* each object are those of the Schema Properties rows whose Object Name is
\* that object's name, in row order, and no others.
C2_PropertiesJoinByObjectName ==
  (PropertiesJoined /\ DistinctNames(SchemaOf(odcs_data)))
    => \A i \in 1..Len(SchemaOf(odcs_data)) :
         Column(PropertiesIn(SchemaOf(odcs_data)[i]), "name")
           = PropertyNamesFor(SchemaOf(odcs_data)[i].d["name"])
\* two objects came back, each with its own property id
C2_Witness ==
  /\ Returned /\ Len(SchemaOf(result.d)) = 2 /\ DistinctNames(SchemaOf(result.d))
  /\ \A i \in 1..2 : Column(PropertiesIn(SchemaOf(result.d)[i]), "name") = <<W("id")>>
  /\ Len(RowsOf("Schema Properties")) = 2

\* a Schema Properties row that names no object of the document
IsOrphan(row, doc) ==
  \A i \in 1..Len(SchemaOf(doc)) : Get(SchemaOf(doc)[i].d, "name", None) # RowText(row, "Object Name")
WithoutOrphans(sheets, doc) ==
  [n \in DOMAIN sheets |->
     IF n = "Schema Properties"
     THEN [columns |-> sheets[n].columns,
           rows |-> SelectSeq(sheets[n].rows, LAMBDA row : ~IsOrphan(row, doc))]
     ELSE sheets[n]]
\* C4: when the Schema Properties table holds a row that names no Schema
\* row, the join raises no error and every object has the properties it
\* would have without that row.
C4_OrphanRowsDropped ==
  [][(/\ pc = "properties"
      /\ "schema" \in DOMAIN odcs_data
      /\ \E i \in 1..Len(RowsOf("Schema Properties")) : IsOrphan(RowsOf("Schema Properties")[i], odcs_data))
       => /\ pc' # "failed"
          /\ LET without == _enhance_schema_with_properties(WithoutOrphans(worksheets, odcs_data), odcs_data)
             IN /\ ~IsRaised(without)
                /\ Len(SchemaOf(odcs_data')) = Len(SchemaOf(without.d))
                /\ \A i \in 1..Len(SchemaOf(odcs_data')) :
                     PropertiesIn(SchemaOf(odcs_data')[i]) = PropertiesIn(SchemaOf(without.d)[i])]_vars

\* the Names of the rules in a quality list
RuleNames(rec) == Column(DGet(rec, "quality", L(<<>>)).l, "name")
\* the Names of the Quality Rules rows that satisfy a condition, in row order
RuleNamesWhere(Cond(_)) ==
  LET rows == SelectSeq(RowsOf("Quality Rules"), LAMBDA row : ~RuleRowSkipped(row) /\ Cond(row))
  IN [j \in 1..Len(rows) |-> _parse_string(Cell(rows[j], "Name"))]
\* C5: the rules under an object are the Quality Rules rows that name the
\* object and whose Level is 'object'; the rules under a property are the
\* rows that name the object and the property and whose Level is
\* 'property'; every other row is dropped.
C5_LevelDecidesTarget ==
  (RulesJoined /\ HasSheet(worksheets, "Quality Rules") /\ DistinctNames(SchemaOf(odcs_data)))
    => \A i \in 1..Len(SchemaOf(odcs_data)) :
         LET obj == SchemaOf(odcs_data)[i]
         IN /\ RuleNames(obj)
                 = RuleNamesWhere(LAMBDA row : /\ RowText(row, "Object Name") = obj.d["name"]
                                               /\ RowText(row, "Level") = W("object"))
            /\ \A j \in 1..Len(PropertiesIn(obj)) :
                 RuleNames(PropertiesIn(obj)[j])
                   = RuleNamesWhere(LAMBDA row : /\ RowText(row, "Object Name") = obj.d["name"]
                                                 /\ RowText(row, "Level") = W("property")
                                                 /\ RowText(row, "Property Name") = PropertiesIn(obj)[j].d["name"])

\* C6: the reconstruction of a workbook that could be opened never ends in
\* an error.
C6_ReconstructionNeverFails == pc # "failed" /\ result.k # "raise"

\* the keys of the document that each flat table fills
SectionKeys(table) ==
  CASE table = "Basic Information" -> {basic_fields[i][1] : i \in 1..Len(basic_fields)}
    [] table = "Tags" -> {"tags"}
    [] table = "Description" -> {"description"}
    [] table = "Servers" -> {"servers"}
    [] table = "Schema" -> {"schema"}
    [] table = "Support" -> {"support"}
    [] table = "Pricing" -> {"price"}
    [] table = "Team" -> {"team"}
    [] table = "Roles" -> {"roles"}
    [] table = "SLA Properties" -> {"slaProperties"}
    [] table = "Authoritative Definitions" -> {"authoritativeDefinitions"}
    [] table = "Custom Properties" -> {"customProperties"}
    [] OTHER -> {}
\* no object and no property of the document has the key
NowhereInSchema(doc, key) ==
  \A i \in 1..Len(SchemaOf(doc)) :
    /\ key \notin DOMAIN SchemaOf(doc)[i].d
    /\ \A j \in 1..Len(PropertiesIn(SchemaOf(doc)[i])) : key \notin DOMAIN PropertiesIn(SchemaOf(doc)[i])[j].d
\* C7: whichever of the fifteen tables the workbook lacks, the
\* reconstruction ends without error and the document has no entry for the
\* sections of the missing tables.
C7_MissingTablesAreSkipped ==
  /\ (ColSet(SheetNames) \ DOMAIN workbook # {}) => result.k # "raise"
  /\ Returned =>
       \A table \in ColSet(SheetNames) \ DOMAIN workbook :
         /\ SectionKeys(table) \cap DOMAIN result.d = {}
         /\ (table = "Schema Properties") => NowhereInSchema(result.d, "properties")
         /\ (table = "Logical Type Options") => NowhereInSchema(result.d, "logicalTypeOptions")
         /\ (table = "Quality Rules") => NowhereInSchema(result.d, "quality")

(***************************************************************************)
(* The data cleaner alone, on nested documents                             *)
(***************************************************************************)
\* the deepest nesting of a value below the root
MaxDepth == 3
\* the most items of a list
MaxItems == 2

Leaves == {None, I(0), B(FALSE), S(<<>>), W("x")}
Keys == {"a", "b"}
\* a value inside a one-item list, a two-item list and a one-key record
Wrap(values) ==
  {L(<<v>>) : v \in values} \cup {L(<<v, B(FALSE)>>) : v \in values} \cup {D([a |-> v]) : v \in values}
\* the values nested to a depth: every list and record of leaves and empty
\* containers at depth 1, wrapped once more at each further depth
RECURSIVE Values(_)
Values(depth) ==
  IF depth = 0 THEN Leaves \cup {L(<<>>), D(EmptyDict)}
  ELSE IF depth = 1
    THEN Leaves \cup {L(items) : items \in SeqsUpTo(Values(0), MaxItems)}
         \cup {D(d) : d \in UNION {[keys -> Values(0)] : keys \in SUBSET Keys}}
    ELSE Values(depth - 1) \cup Wrap(Values(depth - 1))
NestedDocuments ==
  {[a |-> v] : v \in Values(MaxDepth)} \cup {[a |-> v, b |-> w] : v \in Values(1), w \in Values(0)}

InitClean ==
  /\ data \in NestedDocuments
  /\ odcs_data = data
  /\ pc = "clean"
  /\ validate = FALSE
  /\ contract = NotYet
  /\ workbook = EmptyDict
  /\ sheetnames = <<>>
  /\ worksheets = EmptyDict
  /\ result = NotYet
  /\ output = NotYet
  /\ is_valid = NotYet
  /\ validations = 0
  /\ exit = NotYet
  /\ calls = <<>>
\* _clean_data applied to its own result
CleanAgain ==
  /\ pc = "save"
  /\ output' = D(_clean_data(result.d))
  /\ pc' = "cleaned"
  /\ UNCHANGED <<calls, data, contract, workbook, sheetnames, worksheets, odcs_data, result, validate, is_valid, validations, exit>>
SpecClean == InitClean /\ [][CleanAndReturn \/ CleanAgain]_vars

IsEmptyValue(v) == v \in {None, S(<<>>), L(<<>>), D(EmptyDict)}
\* some key inside the value, at any depth, has an empty value
RECURSIVE HasEmptyKey(_)
HasEmptyKey(v) ==
  CASE v.k = "dict" -> \E key \in DOMAIN v.d : IsEmptyValue(v.d[key]) \/ HasEmptyKey(v.d[key])
    [] v.k = "list" -> \E i \in 1..Len(v.l) : HasEmptyKey(v.l[i])
    [] OTHER -> FALSE
\* C14: in the cleaned document no key at any depth, in nested records, in
\* records in lists or in lists nested in lists, has a value that is null,
\* the empty string, an empty list or an empty record.
C14_NoEmptyValueRemains ==
  Returned => ~HasEmptyKey(result)

\* C15: cleaning is idempotent: cleaning the cleaned document gives the
\* cleaned document, for every nested mix of null, 0, false, empty lists
\* and empty records.
C15_CleanIdempotent ==
  (pc = "cleaned") => output = result
\* the first cleaning removed something and left something
C15_Witness ==
  /\ pc = "cleaned" /\ output = result
  /\ result.d # data /\ result.d # EmptyDict
  /\ "b" \in DOMAIN data /\ data["b"] = I(0) /\ data["a"].k = "dict"

IsZero(v) == v \in {I(0), B(FALSE)}
\* the value is 0 or false, or holds one at some depth
RECURSIVE Carries(_)
Carries(v) ==
  CASE v.k = "dict" -> \E key \in DOMAIN v.d : Carries(v.d[key])
    [] v.k = "list" -> \E i \in 1..Len(v.l) : Carries(v.l[i])
    [] OTHER -> IsZero(v)
\* every 0 and false of x is in y at the same key, and in the same order
\* among the items of its list
RECURSIVE Preserved(_, _)
Preserved(x, y) ==
  CASE x.k = "dict" ->
         /\ y.k = "dict"
         /\ \A key \in DOMAIN x.d :
              Carries(x.d[key]) => (key \in DOMAIN y.d /\ Preserved(x.d[key], y.d[key]))
    [] x.k = "list" ->
         /\ y.k = "list"
         /\ LET xs == SelectSeq(x.l, Carries)
                ys == SelectSeq(y.l, Carries)
            IN Len(xs) = Len(ys) /\ \A i \in 1..Len(xs) : Preserved(xs[i], ys[i])
    [] OTHER -> y = x
\* C16: the cleaner removes no key whose value is 0 or false and no 0 or
\* false item of a list: each is in the cleaned document unchanged.
C16_ZeroAndFalseKept ==
  Returned => Preserved(D(data), result)
\* a 0 under a key and a false in a list were kept while a null was removed
C16_Witness ==
  /\ Returned /\ Preserved(D(data), result)
  /\ "b" \in DOMAIN data /\ data["b"] = I(0) /\ result.d["b"] = I(0)
  /\ data["a"] = L(<<None, B(FALSE)>>) /\ result.d["a"] = L(<<B(FALSE)>>)

(***************************************************************************)
(* The cell coercion alone, on raw cells                                   *)
(***************************************************************************)
\* the longest text of a cell
MaxLen == 3
Alphabet == {"-", "0", "1", "7", ".", " ", "a"}
\* a blank cell, the texts over the alphabet, and cells the sheet has typed
Cells ==
  {None, I(42), I(0), B(TRUE), B(FALSE), F("fin", FALSE, 2, <<"5">>)}
  \cup {S(text) : text \in SeqsUpTo(Alphabet, MaxLen)}
InitCoerce ==
  /\ data = [cell |-> None]
  /\ odcs_data \in {[cell |-> c] : c \in Cells}
  /\ pc = "convert"
  /\ validate = FALSE
  /\ contract = NotYet
  /\ workbook = EmptyDict
  /\ sheetnames = <<>>
  /\ worksheets = EmptyDict
  /\ result = NotYet
  /\ output = NotYet
  /\ is_valid = NotYet
  /\ validations = 0
  /\ exit = NotYet
  /\ calls = <<>>
\* self._convert_value(value) on the cell
ConvertValue ==
  /\ pc = "convert"
  /\ result' = _convert_value(odcs_data["cell"])
  /\ pc' = "converted"
  /\ UNCHANGED <<calls, data, contract, workbook, sheetnames, worksheets, odcs_data, validate, output, is_valid, validations, exit>>
SpecCoerce == InitCoerce /\ [][ConvertValue]_vars

Converted == pc = "converted"
\* the text matches ^-?\d+$
IntegerText(text) ==
  /\ text # <<>>
  /\ IsDigit(IF text[1] = "-" THEN Tail(text) ELSE text)
IntegerValue(text) == IF text[1] = "-" THEN 0 - DigitsToNat(Tail(text)) ELSE DigitsToNat(text)
\* C17: a text that is an optional minus sign followed by one or more
\* decimal digits is coerced to the integer of that value.
C17_IntegerTextBecomesInteger ==
  (Converted /\ odcs_data["cell"].k = "str" /\ IntegerText(odcs_data["cell"].s)) =>
    result = I(IntegerValue(odcs_data["cell"].s))

\* C18: a null cell, the empty string and a text that is empty once its
\* whitespace is trimmed are all coerced to null.
C18_BlankBecomesNull ==
  (Converted /\ (odcs_data["cell"] = None
                 \/ (odcs_data["cell"].k = "str" /\ Strip(odcs_data["cell"].s) = <<>>))) =>
    result = None

(***************************************************************************)
(* The projection: the rows of the three join tables and the tables of     *)
(* the workbook                                                            *)
(***************************************************************************)
Projected == pc # "generate" /\ contract # NotYet
\* the cells of some columns of every row of a sheet of the workbook
KeyCells(sheet_name, columns) ==
  LET rows == workbook[sheet_name].rows
  IN [r \in 1..Len(rows) |-> [c \in 1..Len(columns) |-> rows[r][columns[c]]]]
RulesIn(record) == DGet(record, "quality", L(<<>>)).l
\* object name and property name of every property, in document order
PropertyKeys(doc) ==
  Concat([i \in 1..Len(SchemaOf(doc)) |->
    LET obj == SchemaOf(doc)[i]
    IN [j \in 1..Len(PropertiesIn(obj)) |-> <<obj.d["name"], PropertiesIn(obj)[j].d["name"]>>]])
\* the same for the properties that have logical type options
OptionKeys(doc) ==
  Concat([i \in 1..Len(SchemaOf(doc)) |->
    LET obj == SchemaOf(doc)[i]
        with == SelectSeq(PropertiesIn(obj), LAMBDA prop : Truthy(DGet(prop, "logicalTypeOptions", None)))
    IN [j \in 1..Len(with) |-> <<obj.d["name"], with[j].d["name"]>>]])
\* object name, property name and level of every rule: the rules of an
\* object, then the rules of each of its properties
RuleKeys(doc) ==
  Concat([i \in 1..Len(SchemaOf(doc)) |->
    LET obj == SchemaOf(doc)[i]
    IN [j \in 1..Len(RulesIn(obj)) |-> <<obj.d["name"], Blank, W("object")>>]
       \o Concat([p \in 1..Len(PropertiesIn(obj)) |->
            [j \in 1..Len(RulesIn(PropertiesIn(obj)[p])) |->
               <<obj.d["name"], PropertiesIn(obj)[p].d["name"], W("property")>>]])])
\* C19: every row of Schema Properties, Logical Type Options and Quality
\* Rules has in Object Name the name of the object that contains the
\* entity, in Property Name the name of the containing property (blank for
\* an object rule) and, for a rule, in Level object or property as the rule
\* is listed under an object or a property, whatever keys the record of the
\* property, the options or the rule has itself.
C19_RowsCarryTheirContext ==
  Projected =>
    /\ KeyCells("Schema Properties", <<"Object Name", "Property Name">>) = PropertyKeys(data)
    /\ KeyCells("Logical Type Options", <<"Object Name", "Property Name">>) = OptionKeys(data)
    /\ KeyCells("Quality Rules", <<"Object Name", "Property Name", "Level">>) = RuleKeys(data)

\* the fifteen tables of a workbook, in order
expected_sheets ==
  <<"Basic Information", "Tags", "Description", "Servers", "Schema", "Schema Properties",
    "Logical Type Options", "Quality Rules", "Support", "Pricing", "Team", "Roles",
    "SLA Properties", "Authoritative Definitions", "Custom Properties">>
\* C20: the workbook of every projected document has exactly the fifteen
\* named tables, in the same fixed order, whether the sections of the
\* document are populated, empty or absent.
C20_FifteenTablesInOrder ==
  Projected =>
    /\ sheetnames = expected_sheets
    /\ Len(sheetnames) = 15
    /\ DOMAIN workbook = {sheetnames[i] : i \in 1..Len(sheetnames)}
\* the workbook of a document without any optional section, and of one
\* whose sections are empty
C20_Witness ==
  /\ Projected /\ sheetnames = expected_sheets
  /\ data \in {MinimalContract, EmptySectionsDocument}
  /\ workbook["Tags"].rows = <<>>

(***************************************************************************)
(* The round trip of the nested sections                                   *)
(***************************************************************************)
UniquelyNamed(doc) == DistinctNames(SchemaOf(doc)) /\ ~HasDuplicateProperty(doc)
\* the records of a list that have the name
Named(records, name) == SelectSeq(records, LAMBDA record : DGet(record, "name", None) = name)
\* the names of the rules of a record, None for a rule without name
RuleNamesOf(record) == [j \in 1..Len(RulesIn(record)) |-> DGet(RulesIn(record)[j], "name", None)]
\* the record of the same name in the list has the same rules, by count and name
SameRules(record, records) ==
  \/ RulesIn(record) = <<>>
  \/ /\ Len(Named(records, record.d["name"])) = 1
     /\ RuleNamesOf(Named(records, record.d["name"])[1]) = RuleNamesOf(record)
\* C21: for a document with uniquely named objects and properties, every
\* quality rule of an object or of a property is in the round trip's
\* document under the same object or property, so that every quality list
\* has as many rules as before.
C21_QualityRulesRoundTrip ==
  (Returned /\ UniquelyNamed(data)) =>
    \A i \in 1..Len(SchemaOf(data)) :
      LET obj == SchemaOf(data)[i]
      IN /\ SameRules(obj, SchemaOf(result.d))
         /\ \A j \in 1..Len(PropertiesIn(obj)) :
              /\ Len(Named(SchemaOf(result.d), obj.d["name"])) = 1
              /\ SameRules(PropertiesIn(obj)[j], PropertiesIn(Named(SchemaOf(result.d), obj.d["name"])[1]))

SupportedOptions == {OptionColumns[i][2] : i \in 1..Len(OptionColumns)} \cup {"required"}
\* the property has non-empty options of the supported fields
HasOptions(prop) ==
  /\ Truthy(DGet(prop, "logicalTypeOptions", None))
  /\ DOMAIN prop.d["logicalTypeOptions"].d \subseteq SupportedOptions
\* the j-th property of the i-th object, None when the document has none
PropertyAt(doc, i, j) ==
  IF i <= Len(SchemaOf(doc)) /\ j <= Len(PropertiesIn(SchemaOf(doc)[i]))
  THEN PropertiesIn(SchemaOf(doc)[i])[j] ELSE None
\* C22: a property with non-empty logicalTypeOptions of the supported
\* option fields has, after the round trip, logicalTypeOptions with the same
\* value for every option, and a property without options has none.
C22_OptionsRoundTrip ==
  Returned =>
    \A i \in 1..Len(SchemaOf(data)) : \A j \in 1..Len(PropertiesIn(SchemaOf(data)[i])) :
      LET prop == PropertiesIn(SchemaOf(data)[i])[j]
          back == PropertyAt(result.d, i, j)
      IN /\ HasOptions(prop) =>
              /\ back.k = "dict" /\ "logicalTypeOptions" \in DOMAIN back.d
              /\ back.d["logicalTypeOptions"] = prop.d["logicalTypeOptions"]
         /\ "logicalTypeOptions" \notin DOMAIN prop.d =>
              (back.k = "dict" /\ "logicalTypeOptions" \notin DOMAIN back.d)

ServersOf(doc) == Get(doc, "servers", L(<<>>)).l
\* C23: every scalar field set on a server record (server, type,
\* description, environment, location, host, port, database, schema,
\* project, catalog, format) has the same value on the corresponding server
\* record after the round trip.
C23_ServerFieldsRoundTrip ==
  Returned =>
    /\ Len(ServersOf(result.d)) = Len(ServersOf(data))
    /\ \A i \in 1..Len(ServersOf(data)) :
         \A field \in ServerFields \cap DOMAIN ServersOf(data)[i].d :
           /\ field \in DOMAIN ServersOf(result.d)[i].d
           /\ ServersOf(result.d)[i].d[field] = ServersOf(data)[i].d[field]

\* the list fields of a record are on the other record, equal
SameLists(record, back) ==
  /\ back.k = "dict"
  /\ \A field \in ListFields \cap DOMAIN record.d :
       field \in DOMAIN back.d /\ back.d[field] = record.d[field]
\* C24: every list-valued field of a schema object or of a property (tags,
\* examples, transformSourceObjects) is, after the round trip, on the same
\* object or property with the same elements in the same order.
C24_ListFieldsRoundTrip ==
  Returned =>
    \A i \in 1..Len(SchemaOf(data)) :
      /\ i <= Len(SchemaOf(result.d))
      /\ SameLists(SchemaOf(data)[i], SchemaOf(result.d)[i])
      /\ \A j \in 1..Len(PropertiesIn(SchemaOf(data)[i])) :
           SameLists(PropertiesIn(SchemaOf(data)[i])[j], PropertyAt(result.d, i, j))

\* ---------------------------------------------------------------------
\* Opening the file: parse_from_file before the first table is read
\* ---------------------------------------------------------------------

\* a path at which there is no file
NoFile == [k |-> "missing"]

\* a file that exists but is not a workbook (text saved as .xlsx)
NotAWorkbook == [k |-> "text"]

\* variant: the existence test inside the try block, so that every failure
\* is wrapped as ValueError
OpenError_wrapped(file) ==
  IF file = NoFile \/ file = NotAWorkbook THEN "ValueError" ELSE "none"

\* the exception parse_from_file raises before any table is read:
\* FileNotFoundError outside the try block, the failure of load_workbook
\* wrapped as ValueError inside it
OpenError(file) ==
  IF file = NoFile THEN "FileNotFoundError"
  ELSE IF file = NotAWorkbook THEN "ValueError"
  ELSE "none"

OpenWorkbook ==
  /\ pc = "open"
  /\ IF OpenError(workbook) # "none"
     THEN /\ pc' = "failed"
          /\ result' = Raised(OpenError(workbook))
          /\ exit' = W("failed")
     ELSE /\ pc' = "load"
          /\ UNCHANGED <<result, exit>>
  /\ UNCHANGED <<calls, data, contract, workbook, sheetnames, worksheets, odcs_data, validate, output, is_valid, validations>>

InitFile ==
  /\ workbook \in Workbooks \cup {NoFile, NotAWorkbook}
  /\ sheetnames = IF workbook \in {NoFile, NotAWorkbook} THEN <<>>
                  ELSE SelectSeq(SheetNames, LAMBDA n : n \in DOMAIN workbook)
  /\ validate \in BOOLEAN
  /\ data = EmptyDict
  /\ contract = NotYet
  /\ worksheets = EmptyDict
  /\ odcs_data = EmptyDict
  /\ pc = "open"
  /\ result = NotYet
  /\ output = NotYet
  /\ is_valid = NotYet
  /\ validations = 0
  /\ exit = NotYet
  /\ calls = <<>>

SpecFile == InitFile /\ [][OpenWorkbook \/ Parse]_vars

\* C25: a path that does not exist fails with the not-found error, a file
\* that is not a workbook fails with the format error, and in both cases
\* the operation stops there: no table is read and no document is returned
\* or saved
C25_OpenErrorsAbort ==
  /\ (workbook = NoFile /\ pc # "open") =>
       /\ pc = "failed"
       /\ result = Raised("FileNotFoundError")
  /\ (workbook = NotAWorkbook /\ pc # "open") =>
       /\ pc = "failed"
       /\ result = Raised("ValueError")
  /\ workbook \in {NoFile, NotAWorkbook} =>
       /\ result = NotYet \/ AnyRaised(result)
       /\ worksheets = EmptyDict
       /\ odcs_data = EmptyDict
       /\ output = NotYet

C25_Witness ==
  /\ workbook = NoFile
  /\ pc = "failed"
  /\ result = Raised("FileNotFoundError")

\* ---------------------------------------------------------------------
\* Documents with a section that is explicitly null
\* ---------------------------------------------------------------------

OptionalSections ==
  {"tags", "description", "servers", "schema", "support", "price", "team", "roles",
   "slaProperties", "authoritativeDefinitions", "customProperties"}

\* the minimal and the full document, one section set to None
NullDocuments ==
  {Put(doc, key, None) : doc \in {MinimalContract, FullDocument}, key \in OptionalSections}

OptionalScalars ==
  {"name", "tenant", "dataProduct", "domain", "slaDefaultElement", "contractCreatedTs"}

\* the minimal and the full document, one optional root scalar set to None
NullScalarDocuments ==
  {Put(doc, key, None) : doc \in {MinimalContract, FullDocument}, key \in OptionalScalars}

InitNull ==
  /\ data \in NullDocuments \cup NullScalarDocuments
  /\ validate \in BOOLEAN
  /\ contract = NotYet
  /\ workbook = EmptyDict
  /\ sheetnames = <<>>
  /\ worksheets = EmptyDict
  /\ odcs_data = EmptyDict
  /\ pc = "generate"
  /\ result = NotYet
  /\ output = NotYet
  /\ is_valid = NotYet
  /\ validations = 0
  /\ exit = NotYet
  /\ calls = <<>>

SpecNull == InitNull /\ [][Next]_vars

\* C29: a document that passes validation is projected: generate_from_dict
\* raises nothing and leaves a workbook, also when an optional section is
\* explicitly null
C29_ValidDocumentIsProjected ==
  (pc # "generate" /\ contract = B(TRUE)) =>
     /\ result \notin {Raised("TypeError"), Raised("AttributeError")}
     /\ sheetnames = SheetNames

\* C30: an optional root scalar that is absent or null in the document is
\* absent from the document the round trip returns
C30_UnsetScalarStaysUnset ==
  result.k = "dict" =>
    \A key \in OptionalScalars :
      (key \notin DOMAIN data \/ data[key] = None) => key \notin DOMAIN result.d

\* ---------------------------------------------------------------------
\* The order of the steps of _parse_odcs_data
\* ---------------------------------------------------------------------

\* the calls of parse_from_file and _parse_odcs_data in the order of the
\* source lines; "save" is the caller that receives the returned document
parse_order ==
  <<"load", "basic", "tags", "description", "servers", "schema", "properties", "options",
    "quality", "support", "pricing", "team", "roles", "sla", "definitions", "custom",
    "clean", "save">>

\* the order with every flat table before the schema
stated_order ==
  <<"load", "basic", "tags", "description", "servers", "support", "pricing", "team", "roles",
    "sla", "definitions", "custom", "schema", "properties", "options", "quality",
    "clean", "save">>

PositionIn(order, step) == CHOOSE i \in 1..Len(order) : order[i] = step

\* a step that does not raise is followed by the next step of the order
Follows(order) ==
  (pc \in ColSet(order) \ {"save"} /\ pc' # "failed") =>
     pc' = order[PositionIn(order, pc) + 1]

\* the document is returned by the cleaner step only, and neither the
\* assembled nor the returned document changes afterwards
CleanedOnceLast ==
  /\ (result' # result /\ result'.k = "dict") =>
        /\ pc = "clean"
        /\ result' = D(_clean_data(odcs_data))
  /\ pc \in {"save", "validate", "report", "done"} =>
        /\ odcs_data' = odcs_data
        /\ result' = result

\* C27 (as the code orders the steps): load, Basic Information, tags,
\* description, servers, Schema stubs, the joins of Schema Properties,
\* Logical Type Options and Quality Rules, then support, pricing, team,
\* roles, SLA, authoritative definitions, custom properties, and the
\* cleaner once, last; each step is one call that ends before the next
C27_StepsInCodeOrder == [][Follows(parse_order) /\ CleanedOnceLast]_vars

\* C27 (as stated): every flat table is parsed before the Schema stubs
C27_StepsInStatedOrder == [][Follows(stated_order) /\ CleanedOnceLast]_vars

C27_Witness ==
  /\ pc = "save"
  /\ result.k = "dict"
  /\ {"schema", "support", "customProperties"} \subseteq DOMAIN result.d
  /\ \E i \in 1..Len(result.d["schema"].l) : "properties" \in DOMAIN result.d["schema"].l[i].d

\* ---------------------------------------------------------------------
\* Several generate_from_dict calls at the same time on one converter
\* ---------------------------------------------------------------------

MaxThreads == 2
Threads == 1..MaxThreads

\* two documents the generator projects, different on two sheets
ThreadDocuments ==
  {MinimalContract, Put(Put(MinimalContract, "name", W("orders")), "tags", L(<<W("gold")>>))}

\* the variables of the single conversion, not used by the calls
Idle ==
  /\ data = EmptyDict
  /\ validate = FALSE
  /\ contract = NotYet
  /\ workbook = EmptyDict
  /\ sheetnames = <<>>
  /\ worksheets = EmptyDict
  /\ odcs_data = EmptyDict
  /\ pc = "calls"
  /\ result = NotYet
  /\ output = NotYet
  /\ is_valid = NotYet
  /\ validations = 0
  /\ exit = NotYet

\* Workbook() with the default sheet removed
NewWorkbook == [names |-> <<>>, sheets |-> EmptyDict]

\* variant: the workbook kept in one attribute of the converter
WorkbookOf_shared(t) == 1
\* where the call t keeps the workbook it builds: in a local variable of
\* _create_workbook, one for each call
WorkbookOf(t) == t

InitThreads ==
  /\ Idle
  /\ calls \in [Threads -> {[pc |-> "validate", data |-> doc, contract |-> NotYet, book |-> NewWorkbook,
                             n |-> 0, saved |-> NotYet] : doc \in ThreadDocuments}]

\* contract = ODCSDataContract(**data), or None after the warning
GenValidate(t) ==
  /\ calls[t].pc = "validate"
  /\ calls' = [calls EXCEPT ![t].contract = B(ODCSDataContract(calls[t].data)), ![t].pc = "new"]

\* workbook = Workbook(); workbook.remove(workbook.active)
GenNewWorkbook(t) ==
  /\ calls[t].pc = "new"
  /\ calls' = [calls EXCEPT ![WorkbookOf(t)].book = NewWorkbook, ![t].pc = "sheets"]

\* the next self._create_..._sheet(workbook, ...) call of _create_workbook
GenCreateSheet(t) ==
  /\ calls[t].pc = "sheets"
  /\ LET doc == calls[t].data
         n == calls[t].n + 1
         title == CreatedSheets(doc)[n]
     IN calls' = [calls EXCEPT
                    ![WorkbookOf(t)].book = [names |-> Append(@.names, title),
                                             sheets |-> Put(@.sheets, title, _create_sheet(doc, title))],
                    ![t].n = n,
                    ![t].pc = IF n = Len(CreatedSheets(doc)) THEN "save" ELSE "sheets"]

\* workbook.save(output_path), every call with a path of its own
GenSave(t) ==
  /\ calls[t].pc = "save"
  /\ calls' = [calls EXCEPT ![t].saved = calls[WorkbookOf(t)].book, ![t].pc = "done"]

GenCall(t) ==
  /\ \/ GenValidate(t)
     \/ GenNewWorkbook(t)
     \/ GenCreateSheet(t)
     \/ GenSave(t)
  /\ UNCHANGED <<data, contract, workbook, sheetnames, worksheets, odcs_data, pc, result, validate,
                 output, is_valid, validations, exit>>

NextThreads == \E t \in Threads : GenCall(t)

\* every started thread is scheduled until its call returns
SpecThreads == InitThreads /\ [][NextThreads]_vars /\ \A t \in Threads : WF_vars(GenCall(t))

\* the file a call alone writes for the document
SequentialFile(doc) == [names |-> CreatedSheets(doc), sheets |-> _create_workbook(doc)]

\* the same, for the documents of the calls
SequentialFiles == [doc \in ThreadDocuments |-> SequentialFile(doc)]

AllSaved == \A t \in Threads : calls[t].pc = "done"

\* a step of one call changes nothing of another call
OwnStateOnly == \E t \in Threads : \A u \in Threads \ {t} : calls'[u] = calls[u]

Closed == [k |-> "closed"]

\* odcs_data after one step of _parse_odcs_data, or the ValueError that
\* parse_from_file makes of an exception
Merged(doc, section) ==
  IF AnyRaised(D(section)) THEN Raised("ValueError") ELSE D(Update(doc, section))
Enhanced(enhanced) == IF IsRaised(enhanced) THEN Raised("ValueError") ELSE enhanced
ParsedStep(step, ws, doc) ==
  CASE step = "basic" -> Merged(doc, _parse_basic_information(ws))
    [] step = "tags" -> Merged(doc, _parse_tags(ws))
    [] step = "description" -> Merged(doc, _parse_description(ws))
    [] step = "servers" -> Merged(doc, _parse_servers(ws))
    [] step = "schema" -> Merged(doc, _parse_schema(ws))
    [] step = "properties" -> Enhanced(_enhance_schema_with_properties(ws, doc))
    [] step = "options" -> Enhanced(_enhance_schema_with_logical_type_options(ws, doc))
    [] step = "quality" -> Enhanced(_enhance_schema_with_quality_rules(ws, doc))
    [] step = "support" -> Merged(doc, _parse_support(ws))
    [] step = "pricing" -> Merged(doc, _parse_pricing(ws))
    [] step = "team" -> Merged(doc, _parse_team(ws))
    [] step = "roles" -> Merged(doc, _parse_roles(ws))
    [] step = "sla" -> Merged(doc, _parse_sla_properties(ws))
    [] step = "definitions" -> Merged(doc, _parse_authoritative_definitions(ws))
    [] step = "custom" -> Merged(doc, _parse_custom_properties(ws))
    [] step = "clean" -> D(_clean_data(doc))

\* _parse_odcs_data from the step at position i on
RECURSIVE ParseFrom(_, _, _)
ParseFrom(i, ws, doc) ==
  LET after == ParsedStep(parse_order[i], ws, doc)
  IN IF IsRaised(after) \/ parse_order[i] = "clean" THEN after
     ELSE ParseFrom(i + 1, ws, after.d)

\* what one call alone returns for the workbook
ParsedAlone(file) == ParseFrom(2, _load_all_worksheets(file), EmptyDict)

\* the workbooks of three documents that differ in a root field or a tag
ParserFiles ==
  {_create_workbook(doc) :
     doc \in ThreadDocuments \cup {Put(MinimalContract, "domain", W("sales"))}}

\* self.workbook = None and self.worksheets = {} after __init__; every
\* call has a workbook of its own
InitParsers ==
  /\ workbook = None
  /\ worksheets = EmptyDict
  /\ data = EmptyDict
  /\ validate = FALSE
  /\ contract = NotYet
  /\ sheetnames = <<>>
  /\ odcs_data = EmptyDict
  /\ pc = "calls"
  /\ result = NotYet
  /\ output = NotYet
  /\ is_valid = NotYet
  /\ validations = 0
  /\ exit = NotYet
  /\ calls \in [Threads -> {[pc |-> "open", file |-> file, odcs_data |-> EmptyDict, result |-> NotYet] :
                             file \in ParserFiles}]
  /\ \A t, u \in Threads : t # u => calls[t].file # calls[u].file

\* self.workbook = load_workbook(excel_path, read_only=True)
ParOpen(t) ==
  /\ calls[t].pc = "open"
  /\ workbook' = calls[t].file
  /\ calls' = [calls EXCEPT ![t].pc = "load"]
  /\ UNCHANGED worksheets

\* self._load_all_worksheets(), from self.workbook as it is now
ParLoad(t) ==
  /\ calls[t].pc = "load"
  /\ worksheets' = IF workbook = Closed THEN EmptyDict ELSE _load_all_worksheets(workbook)
  /\ calls' = [calls EXCEPT ![t].pc = "basic", ![t].odcs_data = EmptyDict]
  /\ UNCHANGED workbook

\* one step of _parse_odcs_data, from self.worksheets as it is now; the
\* cleaner step returns the document
ParStep(t) ==
  /\ calls[t].pc \in ColSet(parse_order) \ {"load", "save"}
  /\ \E step \in {calls[t].pc} :
     \E after \in {ParsedStep(step, worksheets, calls[t].odcs_data)} :
        calls' = [calls EXCEPT
                    ![t].odcs_data = IF IsRaised(after) THEN @ ELSE after.d,
                    ![t].result = IF IsRaised(after) \/ step = "clean" THEN after ELSE @,
                    ![t].pc = IF IsRaised(after) \/ step = "clean" THEN "close"
                              ELSE parse_order[PositionIn(parse_order, step) + 1]]
  /\ UNCHANGED <<workbook, worksheets>>

\* finally: if self.workbook: self.workbook.close()
ParClose(t) ==
  /\ calls[t].pc = "close"
  /\ workbook' = Closed
  /\ calls' = [calls EXCEPT ![t].pc = "done"]
  /\ UNCHANGED worksheets

ParCall(t) ==
  /\ \/ ParOpen(t)
     \/ ParLoad(t)
     \/ ParStep(t)
     \/ ParClose(t)
  /\ UNCHANGED <<data, contract, sheetnames, odcs_data, pc, result, validate, output, is_valid,
                 validations, exit>>

NextParsers == \E t \in Threads : ParCall(t)

SpecParsers == InitParsers /\ [][NextParsers]_vars

\* C28: of calls that overlap on one parser, every one returns the document
\* of its own workbook
C28_EachCallReturnsItsOwnDocument ==
  \A t \in DOMAIN calls :
     ("file" \in DOMAIN calls[t] /\ calls[t].pc = "done") => calls[t].result = ParsedAlone(calls[t].file)
====
